---- MODULE Spec2Model ----
(***************************************************************************)
(* A model of metadate-search: the metadata core (src/core.py:            *)
(* OSINTEnhancer and UltraMetadataExtractor), the command line             *)
(* (src/cli.py) and the window's tree and worker thread (src/gui.py).      *)
(*                                                                         *)
(* A Python str is a sequence of one-character strings, so that the        *)
(* substring tests, lower(), strip(), split(',') and float() of the code   *)
(* are computed, not assumed.  A Python float is a fixed-point number in   *)
(* units of 1/3600000 (a thousandth of an arc second when the float is in  *)
(* degrees), or a negative zero, nan or inf.  A dict is the sequence of    *)
(* its entries in insertion order.                                         *)
(***************************************************************************)
EXTENDS Integers, Sequences, FiniteSets, TLC

VARIABLES pc, op, heap, metadata, image_path, env, coords, ret, raised,
          args, out, disk, window

vars == <<pc, op, heap, metadata, image_path, env, coords, ret, raised,
          args, out, disk, window>>

(***************************************************************************)
(* Bounds of the model.                                                    *)
(***************************************************************************)
\* the longest record _extract_coordinates is applied to
MaxLen == 3
\* the longest record enhance_metadata is applied to
MaxBase == 2
\* the most passes whose reader raises during one extraction
MaxFailing == 1
\* the longest sequence _convert_gps_coord is applied to
MaxValues == 3
\* the longest byte string _process_exif_value is applied to
MaxBytes == 3
\* the greatest --limit given to main
MaxLimit == 1
\* the calls of _process_image
MaxThreads == 2

(***************************************************************************)
(* Constants of the program.                                               *)
(***************************************************************************)
\* the bytes kept of an XMP block without closing marker
XmpCap == 20000
\* what is added to the offset of a closing marker to end the XMP slice
XmpTagLen == 12
\* the bytes of the file kept as IPTC sample
IptcSample == 4000

(***************************************************************************)
(* Python str                                                              *)
(***************************************************************************)
UpperChars == <<"A","B","C","D","E","F","G","H","I","J","K","L","M",
                "N","O","P","Q","R","S","T","U","V","W","X","Y","Z">>
LowerChars == <<"a","b","c","d","e","f","g","h","i","j","k","l","m",
                "n","o","p","q","r","s","t","u","v","w","x","y","z">>
DigitChars == <<"0","1","2","3","4","5","6","7","8","9">>

\* str.lower(), one character
LowerChar(c) ==
    IF \E i \in 1..Len(UpperChars) : UpperChars[i] = c
    THEN LowerChars[CHOOSE i \in 1..Len(UpperChars) : UpperChars[i] = c]
    ELSE c

\* str.lower()
Lower(s) == [i \in 1..Len(s) |-> LowerChar(s[i])]

\* sub in s
Contains(sub, s) ==
    \E i \in 0..(Len(s) - Len(sub)) :
        \A j \in 1..Len(sub) : s[i + j] = sub[j]

\* s.startswith(pre)
StartsWith(s, pre) ==
    /\ Len(pre) <= Len(s)
    /\ \A j \in 1..Len(pre) : s[j] = pre[j]

RECURSIVE LStrip(_)
LStrip(s) == IF s # <<>> /\ s[1] = " " THEN LStrip(Tail(s)) ELSE s

RECURSIVE RStrip(_)
RStrip(s) ==
    IF s # <<>> /\ s[Len(s)] = " " THEN RStrip(SubSeq(s, 1, Len(s) - 1)) ELSE s

\* str.strip()
Strip(s) == RStrip(LStrip(s))

\* str.split(','): the parts between the commas, in order (always at least one)
RECURSIVE SplitComma(_)
SplitComma(s) ==
    IF \E i \in 1..Len(s) : s[i] = ","
    THEN LET i == CHOOSE i \in 1..Len(s) :
                     /\ s[i] = ","
                     /\ \A j \in 1..(i - 1) : s[j] # ","
         IN  <<SubSeq(s, 1, i - 1)>> \o SplitComma(SubSeq(s, i + 1, Len(s)))
    ELSE <<s>>

IsDigit(c) == \E i \in 1..Len(DigitChars) : DigitChars[i] = c
DigitVal(c) == (CHOOSE i \in 1..Len(DigitChars) : DigitChars[i] = c) - 1

\* the number a run of decimal digits denotes
RECURSIVE NatOf(_)
NatOf(ds) ==
    IF ds = <<>> THEN 0
    ELSE 10 * NatOf(SubSeq(ds, 1, Len(ds) - 1)) + DigitVal(ds[Len(ds)])

(***************************************************************************)
(* Python float and None                                                   *)
(***************************************************************************)
\* None
NoneVal == [kind |-> "None", v |-> 0]
\* the outcome of a float() that raised ValueError or TypeError
FloatError == [kind |-> "error", v |-> 0]
\* the units in 1.0: with it d + m / 60.0 + s / 3600.0 is exact for whole
\* degrees, hundredths of a minute and thousandths of a second
Unit == 60 * 60 * 1000
\* a finite float, v in units
Num(v) == [kind |-> "num", v |-> v]
\* -0.0
NegZero == [kind |-> "negzero", v |-> 0]
NaN == [kind |-> "nan", v |-> 0]
Inf(sign) == [kind |-> "inf", v |-> sign]

IsFloat(x) == x.kind \in {"num", "negzero", "nan", "inf"}
IsFinite(x) == x.kind \in {"num", "negzero"}

\* sign * v as a float
Signed(sign, v) == IF v = 0 /\ sign < 0 THEN NegZero ELSE Num(sign * v)

\* the units denoted by the fractional digits fs (the first three count)
FracOf(fs) ==
    (Unit \div 1000)
    * ((IF Len(fs) >= 1 THEN 100 * DigitVal(fs[1]) ELSE 0)
       + (IF Len(fs) >= 2 THEN 10 * DigitVal(fs[2]) ELSE 0)
       + (IF Len(fs) >= 3 THEN DigitVal(fs[3]) ELSE 0))

\* float(s) of an unsigned body: digits [. digits] | . digits | nan | inf
ParseUnsigned(t, sign) ==
    LET l == Lower(t)
        dots == {i \in 1..Len(t) : t[i] = "."}
    IN  IF l = <<"n","a","n">> THEN NaN
        ELSE IF l = <<"i","n","f">> \/ l = <<"i","n","f","i","n","i","t","y">>
             THEN Inf(sign)
        ELSE IF t = <<>> \/ Cardinality(dots) > 1 THEN FloatError
        ELSE IF \E i \in 1..Len(t) : ~IsDigit(t[i]) /\ t[i] # "." THEN FloatError
        ELSE IF dots = {}
             THEN Signed(sign, Unit * NatOf(t))
        ELSE LET d  == CHOOSE i \in dots : TRUE
                 ip == SubSeq(t, 1, d - 1)
                 fp == SubSeq(t, d + 1, Len(t))
             IN  IF ip = <<>> /\ fp = <<>> THEN FloatError
                 ELSE Signed(sign, Unit * NatOf(ip) + FracOf(fp))

\* float(s) for a str s: surrounding blanks are dropped, one sign is allowed
ParseFloat(s) ==
    LET t == Strip(s)
    IN  IF t = <<>> THEN FloatError
        ELSE IF t[1] = "-" THEN ParseUnsigned(Tail(t), -1)
        ELSE IF t[1] = "+" THEN ParseUnsigned(Tail(t), 1)
        ELSE ParseUnsigned(t, 1)

(***************************************************************************)
(* Keys, values and records                                                *)
(***************************************************************************)
\* a str key
Key(s) == [str |-> TRUE, s |-> s]
\* a key that is not a str (an int): s is what str(key) gives
IntKey(s) == [str |-> FALSE, s |-> s]

\* a str value
StrVal(s) == [t |-> "str", s |-> s]
\* an int or float value: s is what str(value) gives
NumVal(s) == [t |-> "num", s |-> s]
\* a value whose __str__ and __float__ raise
ObjVal == [t |-> "obj", s |-> <<>>]

Entry(k, v) == [k |-> k, v |-> v]

KeysOf(d) == {d[i].k : i \in 1..Len(d)}
HasKey(d, k) == \E i \in 1..Len(d) : d[i].k = k
IndexOf(d, k) == CHOOSE i \in 1..Len(d) : d[i].k = k
\* d[k]
Get(d, k) == d[IndexOf(d, k)].v

\* d[k] = v: an old key keeps its place, a new key goes last
SetItem(d, k, v) ==
    IF HasKey(d, k)
    THEN [i \in 1..Len(d) |-> IF d[i].k = k THEN Entry(k, v) ELSE d[i]]
    ELSE Append(d, Entry(k, v))

\* the element of a singleton: Only({F(x) : x \in {v}}) is F(v) with v, a value
\* the code computes once and names, evaluated once
Only(S) == CHOOSE x \in S : TRUE

\* d.update(u): every d[k] = v of u in turn, so an old key keeps its place and
\* takes the last value u gives it, and the new keys go last in the order u
\* first brings them
Updated(d, u) ==
    LET \* the value the last entry of u under key k carries
        LastOf(k) ==
            u[CHOOSE i \in 1..Len(u) :
                  /\ u[i].k = k
                  /\ \A j \in (i + 1)..Len(u) : u[j].k # k].v
        \* the entries of u that bring a key d has not, first occurrences
        fresh == {i \in 1..Len(u) :
                     /\ ~HasKey(d, u[i].k)
                     /\ \A j \in 1..(i - 1) : u[j].k # u[i].k}
        Nth(p) == CHOOSE i \in fresh : Cardinality({j \in fresh : j < i}) = p - 1
        kept  == [i \in 1..Len(d) |->
                     IF HasKey(u, d[i].k) THEN Entry(d[i].k, LastOf(d[i].k))
                     ELSE d[i]]
        added == [p \in 1..Cardinality(fresh) |->
                     Entry(u[Nth(p)].k, LastOf(u[Nth(p)].k))]
    IN  kept \o added

\* d.update(u)
Update(d, u) == Only({Updated(x, y) : x \in {d}, y \in {u}})

\* the record d without its i-th entry
RemoveAt(d, i) == SubSeq(d, 1, i - 1) \o SubSeq(d, i + 1, Len(d))

\* the records of at most n entries drawn from pool, no key twice
RECURSIVE RecordsOver(_, _)
RecordsOver(pool, n) ==
    IF n = 0 THEN {<<>>}
    ELSE LET prev == RecordsOver(pool, n - 1)
             full == {p \in prev : Len(p) = n - 1}
             ext  == {x \in full \X pool : ~HasKey(x[1], x[2].k)}
         IN  prev \cup {Append(x[1], x[2]) : x \in ext}

WellFormed(d) == \A i, j \in 1..Len(d) : d[i].k = d[j].k => i = j

(***************************************************************************)
(* OSINTEnhancer._extract_coordinates                                      *)
(***************************************************************************)

\* float(value)
FloatOf(v) == IF v.t = "obj" THEN FloatError ELSE ParseFloat(v.s)

\* the locals of _extract_coordinates; raised: an exception left the loops
Locals(lat, lon, r) == [lat |-> lat, lon |-> lon, raised |-> r]

\* one iteration of the first loop
Tier1Step(st, e) ==
    IF st.raised THEN st
    ELSE IF ~e.k.str THEN Locals(st.lat, st.lon, TRUE)
    ELSE LET key_lower == Lower(e.k.s)
             f == FloatOf(e.v)
         IN  IF Contains(<<"g","p","s">>, key_lower) /\ Contains(<<"d","e",
                                                                   "c","i",
                                                                   "m","a","l">>, key_lower)
             THEN IF Contains(<<"l","a","t","i","t","u","d","e">>, key_lower)
                  THEN IF IsFloat(f) THEN Locals(f, st.lon, FALSE) ELSE st
                  ELSE IF Contains(<<"l","o","n","g","i","t","u","d","e">>, key_lower)
                  THEN IF IsFloat(f) THEN Locals(st.lat, f, FALSE) ELSE st
                  ELSE st
             ELSE st

\* the first loop: the iterations lo..hi in order, taken by halves, until an exception
\* leaves the loop
RECURSIVE Tier1Loop(_, _, _, _)
Tier1Loop(md, lo, hi, st) ==
    IF lo > hi \/ st.raised THEN st
    ELSE IF lo = hi THEN Tier1Step(st, md[lo])
    ELSE LET mid == (lo + hi) \div 2
         IN  Tier1Loop(md, mid + 1, hi, Tier1Loop(md, lo, mid, st))

\* the first loop, entered with lat, lon = None, None
Tier1(md) == Tier1Loop(md, 1, Len(md), Locals(NoneVal, NoneVal, FALSE))

\* one iteration of the second loop
Tier2Step(st, e) ==
    IF st.raised THEN st
    ELSE IF ~e.k.str THEN Locals(st.lat, st.lon, TRUE)
    ELSE IF ~Contains(<<"c","o","o","r","d","i","n","a","t","e","s">>, Lower(e.k.s)) THEN st
    ELSE IF e.v.t = "obj" THEN st
    ELSE LET parts == SplitComma(e.v.s)
         IN  IF Len(parts) # 2 THEN st
             ELSE LET a == ParseFloat(Strip(parts[1]))
                      b == ParseFloat(Strip(parts[2]))
                  IN  IF ~IsFloat(a) THEN st
                      ELSE IF ~IsFloat(b) THEN Locals(a, st.lon, FALSE)
                      ELSE Locals(a, b, FALSE)

\* the second loop: the iterations lo..hi in order, taken by halves, until an exception
\* leaves the loop
RECURSIVE Tier2Loop(_, _, _, _)
Tier2Loop(md, lo, hi, st) ==
    IF lo > hi \/ st.raised THEN st
    ELSE IF lo = hi THEN Tier2Step(st, md[lo])
    ELSE LET mid == (lo + hi) \div 2
         IN  Tier2Loop(md, mid + 1, hi, Tier2Loop(md, lo, mid, st))

\* the locals when the search ends
Resolve(md) ==
    LET t1 == Tier1(md)
    IN  IF t1.raised THEN t1
        ELSE IF t1.lat = NoneVal \/ t1.lon = NoneVal
             THEN Tier2Loop(md, 1, Len(md), t1)
        ELSE t1

\* a returned (lat, lon)
Pair(lat, lon) == [kind |-> "pair", lat |-> lat, lon |-> lon]
\* a returned None
NoCoords == [kind |-> "None", lat |-> NoneVal, lon |-> NoneVal]

\* a return statement that is content with one resolved component
ReturnCoordsEither(st) ==
    IF st.lat # NoneVal \/ st.lon # NoneVal THEN Pair(st.lat, st.lon)
    ELSE NoCoords

\* the return statement
ReturnCoords(st) ==
    IF st.lat # NoneVal /\ st.lon # NoneVal THEN Pair(st.lat, st.lon)
    ELSE NoCoords

extract_coordinates(md) ==
    LET st == Resolve(md)
    IN  IF st.raised THEN NoCoords ELSE ReturnCoords(st)


(***************************************************************************)
(* Formatting                                                              *)
(***************************************************************************)
\* str(n) for a natural number n
RECURSIVE NatChars(_)
NatChars(n) ==
    IF n < 10 THEN <<DigitChars[n + 1]>>
    ELSE NatChars(n \div 10) \o <<DigitChars[(n % 10) + 1]>>

Abs(v) == IF v < 0 THEN -v ELSE v

\* the first n decimal digits of rem / Unit
RECURSIVE FracDigits(_, _)
FracDigits(rem, n) ==
    IF n = 0 THEN <<>>
    ELSE <<DigitChars[((rem * 10) \div Unit) + 1]>>
         \o FracDigits((rem * 10) % Unit, n - 1)

\* what is left of rem / Unit after its first n decimal digits, in units of
\* the last digit
RECURSIVE FracRest(_, _)
FracRest(rem, n) == IF n = 0 THEN rem ELSE FracRest((rem * 10) % Unit, n - 1)

\* the digits of the number after the one that ds denotes
RECURSIVE Successor(_)
Successor(ds) ==
    IF ds = <<>> THEN <<"1">>
    ELSE IF ds[Len(ds)] = "9" THEN Successor(SubSeq(ds, 1, Len(ds) - 1)) \o <<
                                                                              "0">>
    ELSE SubSeq(ds, 1, Len(ds) - 1) \o <<DigitChars[DigitVal(ds[Len(ds)]) + 2]>>

\* f"{x:.nf}": the decimal with n digits nearest to the double.  The double
\* is within rounding error of the exact value, so when that is half-way
\* between two decimals the double lies on either side: up tells which
FormatFixed(x, n, up) ==
    IF x.kind = "nan" THEN <<"n","a","n">>
    ELSE IF x.kind = "inf" THEN (IF x.v < 0 THEN <<"-","i","n","f">> ELSE <<
                                                                            "i",
                                                                            "n",
                                                                            "f">>)
    ELSE LET a == Abs(x.v)
             digits == NatChars(a \div Unit) \o FracDigits(a % Unit, n)
             rest == FracRest(a % Unit, n)
             rounded == IF 2 * rest > Unit \/ (2 * rest = Unit /\ up)
                        THEN Successor(digits) ELSE digits
             whole == Len(rounded) - n
         IN  (IF x.v < 0 \/ x.kind = "negzero" THEN <<"-">> ELSE <<>>)
             \o SubSeq(rounded, 1, whole)
             \o (IF n > 0 THEN <<".">> \o SubSeq(rounded, whole + 1, Len(rounded))
                 ELSE <<>>)

\* ds without its trailing zeros, one digit kept
RECURSIVE StripZeros(_)
StripZeros(ds) ==
    IF Len(ds) > 1 /\ ds[Len(ds)] = "0" THEN StripZeros(SubSeq(ds, 1, Len(ds) - 1))
    ELSE ds

\* f"{x}" of a float: the shortest decimal that reads back.  A value with a
\* finite decimal expansion prints as that expansion (when it was computed,
\* provided the doubles gave the nearest one); of any other value the first
\* twelve decimals are printed and "~" stands for the digits after them; a
\* value below 0.0001 prints in exponent notation, for which "~" stands
Repr(x) ==
    IF x.kind = "nan" THEN <<"n","a","n">>
    ELSE IF x.kind = "inf" THEN (IF x.v < 0 THEN <<"-","i","n","f">> ELSE <<
                                                                            "i",
                                                                            "n",
                                                                            "f">>)
    ELSE LET a == Abs(x.v)
         IN  (IF x.v < 0 \/ x.kind = "negzero" THEN <<"-">> ELSE <<>>)
             \o (IF a # 0 /\ a < Unit \div 10000 THEN <<"~">>
                 ELSE NatChars(a \div Unit) \o <<".">>
                      \o (IF FracRest(a % Unit, 7) = 0
                          THEN StripZeros(FracDigits(a % Unit, 7))
                          ELSE FracDigits(a % Unit, 12) \o <<"~">>))

\* the rounding of one chain of float operations, where the exact result
\* does not tell what the doubles give: slip, a product that is exactly a
\* whole number of minutes is computed just below it; up and fix, a value
\* half-way between two decimals prints as the upper one, for the seconds
\* and for the .6f and .8f decimals
Rounding(slip, up, fix) == [slip |-> slip, up |-> up, fix |-> fix]
Roundings == {Rounding(s, u, f) : s \in BOOLEAN, u \in BOOLEAN, f \in BOOLEAN}
NoRounding == Rounding(FALSE, FALSE, FALSE)

\* the roundings of a call: of the latitude's chain and of the longitude's
NoRoundings == [lat |-> NoRounding, lon |-> NoRounding]

\* None as a value of a record
PyNone == [t |-> "none", s |-> <<"N","o","n","e">>]

\* str(value), for a value whose __str__ returns
Str(v) == v.s

\* hexdigest() of a hash of s: the digest is kept as the tagged input
HexDigest(alg, s) == <<alg>> \o s

(***************************************************************************)
(* OSINTEnhancer: the six analyses                                         *)
(***************************************************************************)
\* the outcomes of geolocator.reverse, the address parts of a location
NoLocation == [kind |-> "none", address |-> <<>>, full |-> <<>>]
GeocoderRaises == [kind |-> "raise", address |-> <<>>, full |-> <<>>]
Location(address, full) == [kind |-> "location", address |-> address, full |-> full]

\* address.get(k, default)
GetOr(d, k, default) == IF HasKey(d, k) THEN Get(d, k) ELSE default

Unknown == StrVal(<<"U","n","k","n","o","w","n">>)

\* lines 68-78: the reverse geocoding fields
AddressFields(location) ==
    LET address == location.address
    IN  << Entry(Key(<<"O","S","I","N","T","_","C","o","u","n","t","r","y">>), GetOr(address, Key(<<
                                                                                                    "c",
                                                                                                    "o",
                                                                                                    "u",
                                                                                                    "n",
                                                                                                    "t",
                                                                                                    "r",
                                                                                                    "y">>), Unknown)),
           Entry(Key(<<"O","S","I","N","T","_","C","o","u","n","t","r","y",
                       "_","C","o","d","e">>),
                 GetOr(address, Key(<<"c","o","u","n","t","r","y","_","c","o",
                                      "d","e">>), Unknown)),
           Entry(Key(<<"O","S","I","N","T","_","S","t","a","t","e">>), GetOr(address, Key(<<
                                                                                            "s",
                                                                                            "t",
                                                                                            "a",
                                                                                            "t",
                                                                                            "e">>), Unknown)),
           Entry(Key(<<"O","S","I","N","T","_","C","i","t","y">>),
                 GetOr(address, Key(<<"c","i","t","y">>),
                       GetOr(address, Key(<<"t","o","w","n">>), Unknown))),
           Entry(Key(<<"O","S","I","N","T","_","P","o","s","t","c","o","d","e">>), GetOr(address, Key(<<
                                                                                                        "p",
                                                                                                        "o",
                                                                                                        "s",
                                                                                                        "t",
                                                                                                        "c",
                                                                                                        "o",
                                                                                                        "d",
                                                                                                        "e">>), Unknown)),
           Entry(Key(<<"O","S","I","N","T","_","R","o","a","d">>), GetOr(address, Key(<<
                                                                                        "r",
                                                                                        "o",
                                                                                        "a",
                                                                                        "d">>), Unknown)),
           Entry(Key(<<"O","S","I","N","T","_","F","u","l","l","_","A","d",
                       "d","r","e","s","s">>), StrVal(location.full)) >>

\* lines 80-90: the offline gazetteer, every failure swallowed
GazetteerFields(rg) ==
    IF rg.kind = "result"
    THEN << Entry(Key(<<"O","S","I","N","T","_","R","G","_","C","o","u","n",
                        "t","r","y">>), GetOr(rg.result, Key(<<"c","c">>), Unknown)),
            Entry(Key(<<"O","S","I","N","T","_","R","G","_","C","i","t","y">>), GetOr(rg.result, Key(<<
                                                                                                       "n",
                                                                                                       "a",
                                                                                                       "m",
                                                                                                       "e">>), Unknown)),
            Entry(Key(<<"O","S","I","N","T","_","R","G","_","A","d","m","i",
                        "n","1">>), GetOr(rg.result, Key(<<"a","d","m","i",
                                                           "n","1">>), Unknown)),
            Entry(Key(<<"O","S","I","N","T","_","R","G","_","A","d","m","i",
                        "n","2">>), GetOr(rg.result, Key(<<"a","d","m","i",
                                                           "n","2">>), Unknown)) >>
    ELSE <<>>

coord_to_3words(lat, lon) ==
    <<"d","e","m","o",".","w","o","r","d","s",".">> \o HexDigest("md5[:8]", Repr(lat) \o Repr(lon))

\* lines 92-97: the map links
MapLinks(lat, lon) ==
    << Entry(Key(<<"O","S","I","N","T","_","G","o","o","g","l","e","_","M",
                   "a","p","s">>),
             StrVal(<<"h","t","t","p","s",":","/","/","m","a","p","s",".","g",
                      "o","o","g","l","e",".","c","o","m","/","?","q","=">> \o Repr(lat) \o <<
                                                                                              ",">>
                    \o Repr(lon) \o <<"&","z","=","1","7">>)),
       Entry(Key(<<"O","S","I","N","T","_","O","p","e","n","S","t","r","e",
                   "e","t","M","a","p">>),
             StrVal(<<"h","t","t","p","s",":","/","/","w","w","w",".","o","p",
                      "e","n","s","t","r","e","e","t","m","a","p",".","o","r",
                      "g","/","?","m","l","a","t","=">> \o Repr(lat)
                    \o <<"&","m","l","o","n","=">> \o Repr(lon) \o <<"&","z",
                                                                     "o","o",
                                                                     "m","=",
                                                                     "1","7">>)),
       Entry(Key(<<"O","S","I","N","T","_","B","i","n","g","_","M","a","p","s">>),
             StrVal(<<"h","t","t","p","s",":","/","/","b","i","n","g",".","c",
                      "o","m","/","m","a","p","s","/","d","e","f","a","u","l",
                      "t",".","a","s","p","x","?","c","p","=">> \o Repr(lat)
                    \o <<"~">> \o Repr(lon) \o <<"&","l","v","l","=","1","7">>)),
       Entry(Key(<<"O","S","I","N","T","_","Y","a","n","d","e","x","_","M",
                   "a","p","s">>),
             StrVal(<<"h","t","t","p","s",":","/","/","y","a","n","d","e","x",
                      ".","r","u","/","m","a","p","s","/","?","p","t","=">> \o Repr(lon) \o <<
                                                                                              ",">>
                    \o Repr(lat) \o <<"&","z","=","1","7">>)),
       Entry(Key(<<"O","S","I","N","T","_","W","h","a","t","3","W","o","r",
                   "d","s">>),
             StrVal(<<"h","t","t","p","s",":","/","/","w","h","a","t","3","w",
                      "o","r","d","s",".","c","o","m","/","/","/">> \o coord_to_3words(lat, lon))) >>

\* 'GPS GPSAltitude' in str(metadata): the text of a dict shows its keys and values
AltitudeFields(md) ==
    IF \E i \in 1..Len(md) :
           \/ Contains(<<"G","P","S"," ","G","P","S","A","l","t","i","t","u",
                         "d","e">>, md[i].k.s)
           \/ md[i].v.t = "str" /\ Contains(<<"G","P","S"," ","G","P","S","A",
                                              "l","t","i","t","u","d","e">>, md[i].v.s)
    THEN << Entry(Key(<<"O","S","I","N","T","_","A","l","t","i","t","u","d",
                        "e","_","A","n","a","l","y","s","i","s">>),
                  StrVal(<<"A","l","t","i","t","u","d","e"," ","d","a","t",
                           "a"," ","a","v","a","i","l","a","b","l","e">>)) >>
    ELSE <<>>

\* address.get(k) is truthy
Truthy(v) == v.t # "none" /\ ~(v.t = "str" /\ v.s = <<>>)
HasPart(address, k) == HasKey(address, k) /\ Truthy(Get(address, k))

analyze_location_type(location) ==
    IF location.kind = "raise" THEN StrVal(<<"U","n","k","n","o","w","n">>)
    ELSE IF location.kind = "none" THEN PyNone
    ELSE IF HasPart(location.address, Key(<<"a","e","r","o","w","a","y">>))
         THEN StrVal(<<"A","i","r","p","o","r","t","/","T","r","a","n","s",
                       "p","o","r","t">>)
    ELSE IF HasPart(location.address, Key(<<"t","o","u","r","i","s","m">>))
         THEN StrVal(<<"T","o","u","r","i","s","t"," ","l","o","c","a","t",
                       "i","o","n">>)
    ELSE IF HasPart(location.address, Key(<<"h","i","s","t","o","r","i","c">>))
         THEN StrVal(<<"H","i","s","t","o","r","i","c"," ","s","i","t","e">>)
    ELSE IF HasPart(location.address, Key(<<"l","e","i","s","u","r","e">>))
         THEN StrVal(<<"L","e","i","s","u","r","e"," ","a","r","e","a">>)
    ELSE IF HasPart(location.address, Key(<<"w","a","t","e","r","w","a","y">>))
         THEN StrVal(<<"W","a","t","e","r"," ","a","r","e","a">>)
    ELSE StrVal(<<"U","r","b","a","n","/","R","e","s","i","d","e","n","t","i",
                  "a","l">>)

\* lines 64-104, for the coordinates c that _extract_coordinates returned
GpsFields(c, md, e) ==
    IF c.kind # "pair" THEN <<>>
    ELSE LET head == << Entry(Key(<<"O","S","I","N","T","_","C","o","o","r",
                                    "d","i","n","a","t","e","s">>),
                              StrVal(FormatFixed(c.lat, 6, e.fp.lat.fix) \o <<
                                                                              ",",
                                                                              " ">>
                                     \o FormatFixed(c.lon, 6, e.fp.lon.fix))) >>
         IN  IF e.reverse1.kind = "raise"
             THEN head \o << Entry(Key(<<"O","S","I","N","T","_","G","P","S",
                                         "_","E","r","r","o","r">>),
                                   StrVal(<<"S","e","r","v","i","c","e"," ",
                                            "t","i","m","e","d"," ","o","u",
                                            "t">>)) >>
             ELSE head
                  \o (IF e.reverse1.kind = "location"
                      THEN AddressFields(e.reverse1) ELSE <<>>)
                  \o GazetteerFields(e.rg)
                  \o MapLinks(c.lat, c.lon)
                  \o AltitudeFields(md)
                  \o << Entry(Key(<<"O","S","I","N","T","_","L","o","c","a",
                                    "t","i","o","n","_","T","y","p","e">>),
                              analyze_location_type(e.reverse2)) >>

\* e: the collaborators' outcomes (reverse1, reverse2, rg, folium, file);
\* coords = self._extract_coordinates(metadata) is evaluated once
gps_osint_analysis(md, e) ==
    Only({GpsFields(c, md, e) : c \in {extract_coordinates(md)}})

\* the calls that _gps_osint_analysis makes to the geocoding collaborators,
\* in order: reverse (line 69), rg.search (line 82) and the reverse of
\* _analyze_location_type (line 314); none without a coordinate, and none
\* after a reverse that raised
GeocoderCalls(md, e) ==
    IF extract_coordinates(md).kind # "pair" THEN <<>>
    ELSE IF e.reverse1.kind = "raise" THEN << "reverse" >>
    ELSE << "reverse", "rg.search", "reverse" >>

\* a dict of one error field
ErrorField(k, msg) == << Entry(Key(k), StrVal(msg)) >>

NoAttrLower == <<"'","i","n","t","'"," ","o","b","j","e","c","t"," ","h","a",
                 "s"," ","n","o"," ","a","t","t","r","i","b","u","t","e"," ",
                 "'","l","o","w","e","r","'">>
StrRaised == <<"_","_","s","t","r","_","_"," ","r","a","i","s","e","d">>

\* one iteration of the loop of _extract_lens_info; raised: str(value) raised
LensStep(st, e) ==
    LET kl == Lower(e.k.s)
        lens == Contains(<<"l","e","n","s">>, kl)
        focal == Contains(<<"f","o","c","a","l">>, kl) /\ Contains(<<"l","e",
                                                                     "n","g",
                                                                     "t","h">>, kl)
        aperture == Contains(<<"a","p","e","r","t","u","r","e">>, kl)
    IN  IF ~(lens \/ focal \/ aperture) THEN st
        ELSE IF e.v.t = "obj" THEN [st EXCEPT !.raised = TRUE]
        ELSE [st EXCEPT !.lens_data =
                 Append(@, (IF lens THEN e.k.s \o <<":"," ">>
                            ELSE IF focal THEN <<"F","o","c","a","l",":"," ">>
                            ELSE <<"A","p","e","r","t","u","r","e",":"," ">>) \o Str(e.v))]

\* the loop of _extract_lens_info: the iterations lo..hi in order, taken by halves, until an exception
\* leaves the loop
RECURSIVE LensLoop(_, _, _, _)
LensLoop(md, lo, hi, st) ==
    IF lo > hi \/ st.raised THEN st
    ELSE IF lo = hi THEN LensStep(st, md[lo])
    ELSE LET mid == (lo + hi) \div 2
         IN  LensLoop(md, mid + 1, hi, LensLoop(md, lo, mid, st))

\* lines 335-347
extract_lens_info(md) ==
    LensLoop(md, 1, Len(md), [raised |-> FALSE, lens_data |-> <<>>])

\* ' | '.join(parts)
RECURSIVE JoinBar(_)
JoinBar(parts) ==
    IF Len(parts) = 1 THEN parts[1]
    ELSE parts[1] \o <<" ","|"," ">> \o JoinBar(Tail(parts))

\* one iteration of the loop of _camera_osint_analysis
CameraStep(st, e) ==
    IF st.raised THEN st
    ELSE IF ~e.k.str THEN [st EXCEPT !.raised = TRUE, !.msg = NoAttrLower]
    ELSE LET key_lower == Lower(e.k.s)
             field == IF Contains(<<"m","a","k","e">>, key_lower) /\ ~Truthy(st.make)
                      THEN "make"
                      ELSE IF Contains(<<"m","o","d","e","l">>, key_lower) /\ ~Truthy(st.model)
                      THEN "model"
                      ELSE IF Contains(<<"s","e","r","i","a","l">>, key_lower) /\ ~Truthy(st.serial)
                      THEN "serial"
                      ELSE "skip"
         IN  IF field = "skip" THEN st
             ELSE IF e.v.t = "obj"
             THEN [st EXCEPT !.raised = TRUE, !.msg = StrRaised]
             ELSE [st EXCEPT ![field] = StrVal(Str(e.v))]

\* the loop of _camera_osint_analysis: the iterations lo..hi in order, taken by halves, until an exception
\* leaves the loop
RECURSIVE CameraLoop(_, _, _, _)
CameraLoop(md, lo, hi, st) ==
    IF lo > hi \/ st.raised THEN st
    ELSE IF lo = hi THEN CameraStep(st, md[lo])
    ELSE LET mid == (lo + hi) \div 2
         IN  CameraLoop(md, mid + 1, hi, CameraLoop(md, lo, mid, st))

camera_osint_analysis(md) ==
    LET st == CameraLoop(md, 1, Len(md), [make |-> PyNone, model |-> PyNone,
                                 serial |-> PyNone, raised |-> FALSE,
                                 msg |-> <<>>])
    IN  IF st.raised THEN ErrorField(<<"O","S","I","N","T","_","C","a","m",
                                       "e","r","a","_","E","r","r","o","r">>, st.msg)
        ELSE LET found ==
                     (IF Truthy(st.make)
                      THEN << Entry(Key(<<"O","S","I","N","T","_","C","a","m",
                                          "e","r","a","_","M","a","k","e">>), st.make) >>
                      ELSE <<>>)
                  \o (IF Truthy(st.model)
                      THEN << Entry(Key(<<"O","S","I","N","T","_","C","a","m",
                                          "e","r","a","_","M","o","d","e","l">>), st.model) >>
                      ELSE <<>>)
                  \o (IF Truthy(st.serial)
                      THEN << Entry(Key(<<"O","S","I","N","T","_","C","a","m",
                                          "e","r","a","_","S","e","r","i","a",
                                          "l">>), st.serial),
                              Entry(Key(<<"O","S","I","N","T","_","S","e","r",
                                          "i","a","l","_","H","a","s","h","_",
                                          "M","D","5">>),
                                    StrVal(HexDigest("md5", st.serial.s))),
                              Entry(Key(<<"O","S","I","N","T","_","S","e","r",
                                          "i","a","l","_","H","a","s","h","_",
                                          "S","H","A","1">>),
                                    StrVal(HexDigest("sha1", st.serial.s))) >>
                      ELSE <<>>)
                  \o (IF Truthy(st.make) /\ Truthy(st.model)
                      THEN << Entry(Key(<<"O","S","I","N","T","_","D","e","v",
                                          "i","c","e","_","F","i","n","g","e",
                                          "r","p","r","i","n","t">>),
                                    StrVal(st.make.s \o <<" ">> \o st.model.s)),
                              Entry(Key(<<"O","S","I","N","T","_","D","e","v",
                                          "i","c","e","_","S","e","a","r","c",
                                          "h">>),
                                    StrVal(<<"h","t","t","p","s",":","/","/",
                                             "w","w","w",".","g","o","o","g",
                                             "l","e",".","c","o","m","/","s",
                                             "e","a","r","c","h","?","q","=">>
                                           \o st.make.s \o <<"+">> \o st.model.s
                                           \o <<"+","c","a","m","e","r","a">>)) >>
                      ELSE <<>>)
                 lens == extract_lens_info(md)
             IN  IF lens.raised
                 THEN found \o ErrorField(<<"O","S","I","N","T","_","C","a",
                                            "m","e","r","a","_","E","r","r",
                                            "o","r">>, StrRaised)
                 ELSE IF lens.lens_data # <<>>
                 THEN found \o << Entry(Key(<<"O","S","I","N","T","_","L","e",
                                              "n","s","_","I","n","f","o">>),
                                        StrVal(JoinBar(lens.lens_data))) >>
                 ELSE found

\* one iteration of lines 160-164: the (key, value) pairs that look like dates
TimeStep(st, e) ==
    IF ~e.k.str THEN [st EXCEPT !.raised = TRUE, !.msg = NoAttrLower]
    ELSE LET kl == Lower(e.k.s)
         IN  IF Contains(<<"d","a","t","e">>, kl) \/ Contains(<<"t","i","m",
                                                                "e">>, kl)
             THEN IF e.v.t = "obj"
                  THEN [st EXCEPT !.raised = TRUE, !.msg = StrRaised]
                  ELSE IF Contains(<<"2","0","2">>, Str(e.v)) \/ Contains(<<
                                                                            "2",
                                                                            "0",
                                                                            "1">>, Str(e.v))
                  THEN [st EXCEPT !.found = Append(@, e)]
                  ELSE st
             ELSE st

\* the loop of lines 161-164: the iterations lo..hi in order, taken by halves, until an exception
\* leaves the loop
RECURSIVE TimeLoop(_, _, _, _)
TimeLoop(md, lo, hi, st) ==
    IF lo > hi \/ st.raised THEN st
    ELSE IF lo = hi THEN TimeStep(st, md[lo])
    ELSE LET mid == (lo + hi) \div 2
         IN  TimeLoop(md, mid + 1, hi, TimeLoop(md, lo, mid, st))

Timestamps(md) ==
    TimeLoop(md, 1, Len(md), [raised |-> FALSE, msg |-> <<>>, found |-> <<>>])

\* every timestamp echoed, the sixth and later ones too
TimeEchoAll(found) ==
    [i \in 1..Len(found) |->
        Entry(Key(<<"O","S","I","N","T","_","T","i","m","e","_">> \o NatChars(i)),
              StrVal(found[i].k.s \o <<":"," ">> \o Str(found[i].v)))]

\* timestamps[:5] echoed as OSINT_Time_1 ..
TimeEcho(found) ==
    [i \in 1..(IF Len(found) < 5 THEN Len(found) ELSE 5) |->
        Entry(Key(<<"O","S","I","N","T","_","T","i","m","e","_">> \o NatChars(i)),
              StrVal(found[i].k.s \o <<":"," ">> \o Str(found[i].v)))]

\* lines 176-179: the first key that names a time zone
TimezoneField(md) ==
    LET hits == {i \in 1..Len(md) : Contains(<<"t","i","m","e","z","o","n","e">>, Lower(md[i].k.s))}
    IN  IF hits = {} THEN <<>>
        ELSE << Entry(Key(<<"O","S","I","N","T","_","T","i","m","e","z","o",
                            "n","e">>),
                      md[CHOOSE i \in hits : \A j \in hits : i <= j].v) >>

time_analysis(md) ==
    LET ts == Timestamps(md)
    IN  IF ts.raised THEN ErrorField(<<"O","S","I","N","T","_","T","i","m",
                                       "e","_","E","r","r","o","r">>, ts.msg)
        ELSE (IF ts.found # <<>>
              THEN << Entry(Key(<<"O","S","I","N","T","_","T","i","m","e","s",
                                  "t","a","m","p","s","_","F","o","u","n","d">>),
                            NumVal(NatChars(Len(ts.found)))) >>
                   \o TimeEcho(ts.found)
                   \o (IF Len(ts.found) > 1
                       THEN << Entry(Key(<<"O","S","I","N","T","_","T","i",
                                           "m","e","_","A","n","a","l","y",
                                           "s","i","s">>),
                                     StrVal(<<"M","u","l","t","i","p","l","e",
                                              " ","t","i","m","e","s","t","a",
                                              "m","p","s"," ","-"," ","t","i",
                                              "m","e","l","i","n","e"," ","a",
                                              "v","a","i","l","a","b","l","e">>)) >>
                       ELSE <<>>)
              ELSE <<>>)
             \o TimezoneField(md)

\* os.path.basename(path)
RECURSIVE Basename(_)
Basename(p) ==
    IF \E i \in 1..Len(p) : p[i] = "/"
    THEN Basename(SubSeq(p, (CHOOSE i \in 1..Len(p) : p[i] = "/") + 1, Len(p)))
    ELSE p

\* open(path, 'rb') and os.stat(path) succeed
CanOpen(path, e) == path.kind = "str" /\ e.file # "missing"

\* the bytes of the file
FileBytes(e) == IF e.file = "empty" THEN <<>> ELSE e.content

forensic_analysis(path, e) ==
    IF ~CanOpen(path, e)
    THEN ErrorField(<<"O","S","I","N","T","_","F","o","r","e","n","s","i","c",
                      "_","E","r","r","o","r">>,
                    IF path.kind = "str"
                    THEN <<"[","E","r","r","n","o"," ","2","]"," ","N","o",
                           " ","s","u","c","h"," ","f","i","l","e"," ","o",
                           "r"," ","d","i","r","e","c","t","o","r","y">>
                    ELSE <<"e","x","p","e","c","t","e","d"," ","s","t","r",
                           ","," ","b","y","t","e","s"," ","o","r"," ","o",
                           "s",".","P","a","t","h","L","i","k","e"," ","o",
                           "b","j","e","c","t">>)
    ELSE LET filename == Basename(path.s)
             fl == Lower(filename)
         IN  << Entry(Key(<<"O","S","I","N","T","_","M","D","5","_","H","a",
                            "s","h">>), StrVal(HexDigest("md5", FileBytes(e)))),
                Entry(Key(<<"O","S","I","N","T","_","S","H","A","1","_","H",
                            "a","s","h">>), StrVal(HexDigest("sha1", FileBytes(e)))),
                Entry(Key(<<"O","S","I","N","T","_","S","H","A","2","5","6",
                            "_","H","a","s","h">>),
                      StrVal(HexDigest("sha256", FileBytes(e)))),
                Entry(Key(<<"O","S","I","N","T","_","F","i","l","e","_","S",
                            "i","z","e","_","B","y","t","e","s">>),
                      NumVal(NatChars(Len(FileBytes(e))))),
                Entry(Key(<<"O","S","I","N","T","_","F","i","l","e","_","C",
                            "r","e","a","t","e","d">>), StrVal(e.ctime)),
                Entry(Key(<<"O","S","I","N","T","_","F","i","l","e","_","M",
                            "o","d","i","f","i","e","d">>), StrVal(e.mtime)),
                Entry(Key(<<"O","S","I","N","T","_","F","i","l","e","n","a",
                            "m","e","_","A","n","a","l","y","s","i","s">>), StrVal(filename)) >>
             \o (IF Contains(<<"i","m","g">>, fl) \/ Contains(<<"d","s","c">>, fl)
                    \/ Contains(<<"p","h","o","t","o">>, fl) \/ Contains(<<
                                                                           "p",
                                                                           "i",
                                                                           "c">>, fl)
                 THEN << Entry(Key(<<"O","S","I","N","T","_","F","i","l","e",
                                     "n","a","m","e","_","P","a","t","t","e",
                                     "r","n">>),
                               StrVal(<<"C","o","m","m","o","n"," ","c","a",
                                        "m","e","r","a"," ","n","a","m","i",
                                        "n","g"," ","p","a","t","t","e","r",
                                        "n">>)) >>
                 ELSE <<>>)

\* an iteration that names the field after the key alone
NetworkStepBare(st, e) ==
    IF e.v.t = "obj" THEN [st EXCEPT !.raised = TRUE]
    ELSE IF Contains(<<"h","t","t","p">>, Lower(Str(e.v)))
    THEN [st EXCEPT !.network_data =
             SetItem(@, Key(<<"U","R","L","_","I","n","_">> \o e.k.s), StrVal(Str(e.v)))]
    ELSE st

\* one iteration of the loop of _network_analysis; raised: str(value) raised
NetworkStep(st, e) ==
    IF e.v.t = "obj" THEN [st EXCEPT !.raised = TRUE]
    ELSE LET str_value == Str(e.v)
             url == IF Contains(<<"h","t","t","p">>, Lower(str_value))
                    THEN SetItem(st.network_data, Key(<<"O","S","I","N","T",
                                                        "_","U","R","L","_",
                                                        "I","n","_">> \o e.k.s),
                                 StrVal(str_value))
                    ELSE st.network_data
         IN  IF Contains(<<"@">>, str_value) /\ Contains(<<".">>, str_value)
             THEN [st EXCEPT !.network_data =
                      SetItem(url, Key(<<"O","S","I","N","T","_","E","m","a",
                                         "i","l","_","L","i","k","e","_","I",
                                         "n","_">> \o e.k.s),
                              StrVal(str_value))]
             ELSE [st EXCEPT !.network_data = url]

\* the loop of _network_analysis: the iterations lo..hi in order, taken by halves, until an exception
\* leaves the loop
RECURSIVE NetworkLoop(_, _, _, _)
NetworkLoop(md, lo, hi, st) ==
    IF lo > hi \/ st.raised THEN st
    ELSE IF lo = hi THEN NetworkStep(st, md[lo])
    ELSE LET mid == (lo + hi) \div 2
         IN  NetworkLoop(md, mid + 1, hi, NetworkLoop(md, lo, mid, st))

network_analysis(md) ==
    LET st == NetworkLoop(md, 1, Len(md),
                   [raised |-> FALSE, network_data |-> <<>>])
    IN  IF st.raised
        THEN SetItem(st.network_data, Key(<<"O","S","I","N","T","_","N","e",
                                            "t","w","o","r","k","_","E","r",
                                            "r","o","r">>), StrVal(StrRaised))
        ELSE st.network_data

\* the path of the map written for the coordinates c, or None
MapPath(c, e) ==
    IF c.kind # "pair" \/ ~e.folium THEN PyNone
    ELSE StrVal(<<"/","t","m","p","/","m","e","t","a","d","a","t","e","_","m",
                  "a","p","_">>
                \o HexDigest("md5", Repr(c.lat) \o Repr(c.lon)) \o <<".","h",
                                                                     "t","m",
                                                                     "l">>)

\* the returned map path, or None; coords is evaluated once
create_osm_map(md, e) ==
    Only({MapPath(c, e) : c \in {extract_coordinates(md)}})

(***************************************************************************)
(* OSINTEnhancer.enhance_metadata                                          *)
(*                                                                         *)
(* The heap is the sequence of the dicts allocated so far, a reference is  *)
(* an index into it: metadata refers to the caller's record.               *)
(***************************************************************************)
\* a reference to a fresh dict, empty: a copy that forgets the base
EmptyDict(h, ref) == [heap |-> Append(h, <<>>), ref |-> Len(h) + 1]

\* no copy at all: the same dict under a second name
AliasDict(h, ref) == [heap |-> h, ref |-> ref]

\* metadata.copy(): a fresh dict with the entries of h[ref]
CopyDict(h, ref) == [heap |-> Append(h, h[ref]), ref |-> Len(h) + 1]

\* enhanced.update(u)
UpdateAt(h, ref, u) == [h EXCEPT ![ref] = Update(h[ref], u)]

\* lines 47-49 without the test of map_path
MapFieldAlways(map_path) == << Entry(Key(<<"O","S","I","N","T","_","M","a",
                                           "p","_","F","i","l","e">>), map_path) >>

\* lines 47-49
MapField(map_path) ==
    IF Truthy(map_path) THEN << Entry(Key(<<"O","S","I","N","T","_","M","a",
                                            "p","_","F","i","l","e">>), map_path) >>
    ELSE <<>>

\* an analysis reported its error field
Failed(u) ==
    \E i \in 1..Len(u) :
        u[i].k \in {Key(<<"O","S","I","N","T","_","G","P","S","_","E","r","r",
                          "o","r">>), Key(<<"O","S","I","N","T","_","C","a",
                                            "m","e","r","a","_","E","r","r",
                                            "o","r">>),
                    Key(<<"O","S","I","N","T","_","T","i","m","e","_","E","r",
                          "r","o","r">>), Key(<<"O","S","I","N","T","_","F",
                                                "o","r","e","n","s","i","c",
                                                "_","E","r","r","o","r">>),
                    Key(<<"O","S","I","N","T","_","N","e","t","w","o","r","k",
                          "_","E","r","r","o","r">>)}

\* what analysis n of enhance_metadata returns for the record md
Analysis(n, md, path, e) ==
    IF n = 1 THEN gps_osint_analysis(md, e)
    ELSE IF n = 2 THEN camera_osint_analysis(md)
    ELSE IF n = 3 THEN time_analysis(md)
    ELSE IF n = 4 THEN forensic_analysis(path, e)
    ELSE IF n = 5 THEN network_analysis(md)
    ELSE MapField(create_osm_map(md, e))

\* the heap after the analyses 1..n were merged into the dict at ref
RECURSIVE Enhanced(_, _, _, _, _, _)
Enhanced(n, h, ref, md, path, e) ==
    IF n = 0 THEN h
    ELSE LET prev == Enhanced(n - 1, h, ref, md, path, e)
         IN  UpdateAt(prev, ref,
                      Only({Analysis(n, base, path, e) : base \in {prev[md]}}))

\* the analyses 1..n, had the first failing analysis ended the call
RECURSIVE EnhancedAborting(_, _, _, _, _, _)
EnhancedAborting(n, h, ref, md, path, e) ==
    IF n = 0 THEN h
    ELSE LET prev == EnhancedAborting(n - 1, h, ref, md, path, e)
         IN  IF \E m \in 1..(n - 1) : Failed(Analysis(m, h[md], path, e))
             THEN prev
             ELSE UpdateAt(prev, ref,
                           Only({Analysis(n, base, path, e) : base \in {prev[md]}}))

\* enhance_metadata, had the first failing analysis ended the call
enhance_aborting(h, md, path, e) ==
    LET c == CopyDict(h, md)
    IN  [heap |-> EnhancedAborting(6, c.heap, c.ref, md, path, e), ret |-> c.ref]

\* the heap after the call and the reference returned
enhance_metadata(h, md, path, e) ==
    LET c == CopyDict(h, md)
    IN  [heap |-> Enhanced(6, c.heap, c.ref, md, path, e), ret |-> c.ref]

(***************************************************************************)
(* Inputs                                                                  *)
(***************************************************************************)
\* a path given as a str
StrPath(s) == [kind |-> "str", s |-> s]
\* an open file object given where a path is expected
FileObject == [kind |-> "obj", s |-> <<>>]

\* no image: Image.open raises
NoImage ==
    [ok |-> FALSE, format |-> <<>>, mode |-> <<>>, width |-> 1, height |-> 1,
     bands |-> <<>>, channels |-> 0, exif |-> <<>>, unnamed |-> <<>>,
     info |-> <<>>, icc |-> "none"]

\* what the collaborators do during one call: the geocoder (twice), the
\* gazetteer, the map renderer and the file system; the file is a few bytes
\* that no reader finds tags or an image in, OSINTEnhancer() succeeds, and
\* the float operations round as the exact results say
Env(reverse1, reverse2, rg, folium, file) ==
    [reverse1 |-> reverse1, reverse2 |-> reverse2, rg |-> rg, folium |-> folium,
     file |-> file, content |-> <<"J","F","I","F","d","a","t","a">>,
     ctime |-> <<"2","0","2","4","-","0","1","-","0","2","T","0","3",":","0",
                 "4",":","0","5">>, mtime |-> <<"2","0","2","4","-","0","1",
                                                "-","0","2","T","0","3",":",
                                                "0","4",":","0","6">>,
     tags |-> <<>>, image |-> NoImage, failing |-> {}, ctor |-> TRUE,
     fp |-> NoRoundings]

LocA ==
    Location(<< Entry(Key(<<"c","o","u","n","t","r","y">>), StrVal(<<"F","r",
                                                                     "a","n",
                                                                     "c","e">>)),
                Entry(Key(<<"c","o","u","n","t","r","y","_","c","o","d","e">>), StrVal(<<
                                                                                         "f",
                                                                                         "r">>)),
                Entry(Key(<<"c","i","t","y">>), StrVal(<<"P","a","r","i","s">>)),
                Entry(Key(<<"r","o","a","d">>), StrVal(<<"R","u","e"," ","d",
                                                         "e"," ","R","i","v",
                                                         "o","l","i">>)),
                Entry(Key(<<"t","o","u","r","i","s","m">>), StrVal(<<"L","o",
                                                                     "u","v",
                                                                     "r","e">>)) >>,
             <<"L","o","u","v","r","e",","," ","R","u","e"," ","d","e"," ",
               "R","i","v","o","l","i",","," ","P","a","r","i","s",","," ",
               "F","r","a","n","c","e">>)
LocB ==
    Location(<< Entry(Key(<<"t","o","w","n">>), StrVal(<<"E","l","y">>)),
                Entry(Key(<<"c","o","u","n","t","r","y">>), StrVal(<<"U","n",
                                                                     "i","t",
                                                                     "e","d",
                                                                     " ","K",
                                                                     "i","n",
                                                                     "g","d",
                                                                     "o","m">>)) >>,
             <<"E","l","y",","," ","U","n","i","t","e","d"," ","K","i","n",
               "g","d","o","m">>)

RgHit == [kind |-> "result",
          result |-> << Entry(Key(<<"c","c">>), StrVal(<<"F","R">>)),
                        Entry(Key(<<"n","a","m","e">>), StrVal(<<"P","a","r",
                                                                 "i","s">>)),
                        Entry(Key(<<"a","d","m","i","n","1">>), StrVal(<<"I",
                                                                         "l",
                                                                         "e",
                                                                         "-",
                                                                         "d",
                                                                         "e",
                                                                         "-",
                                                                         "F",
                                                                         "r",
                                                                         "a",
                                                                         "n",
                                                                         "c",
                                                                         "e">>)) >>]
RgRaises == [kind |-> "raise", result |-> <<>>]

NominalEnv == Env(LocA, LocA, RgHit, TRUE, "data")
AllFailEnv == Env(GeocoderRaises, GeocoderRaises, RgRaises, FALSE, "missing")

\* how many collaborators of e misbehave
Faults(e) ==
    (IF e.reverse1 # LocA THEN 1 ELSE 0) + (IF e.reverse2 # LocA THEN 1 ELSE 0)
    + (IF e.rg # RgHit THEN 1 ELSE 0) + (IF ~e.folium THEN 1 ELSE 0)
    + (IF e.file # "data" THEN 1 ELSE 0)

AllEnvs ==
    {Env(r1, r2, rg, fo, fi) :
        r1 \in {LocA, NoLocation, GeocoderRaises},
        r2 \in {LocA, LocB, NoLocation, GeocoderRaises},
        rg \in {RgHit, RgRaises}, fo \in BOOLEAN, fi \in {"data", "missing"}}

\* the environments of an enhancement: no collaborator misbehaves, or one
\* does, or all of them do
EnhanceEnvs == {e \in AllEnvs : Faults(e) <= 1} \cup {AllFailEnv}

\* the entries the records given to _extract_coordinates are built from
CoordEntries ==
    { Entry(Key(<<"G","P","S","_","L","a","t","i","t","u","d","e","_","D","e",
                  "c","i","m","a","l">>), StrVal(<<"1","2",".","5">>)),
      Entry(Key(<<"G","P","S","_","L","a","t","i","t","u","d","e","_","D","e",
                  "c","i","m","a","l">>), StrVal(<<"a","b","c">>)),
      Entry(Key(<<"G","P","S","_","L","a","t","i","t","u","d","e","_","D","e",
                  "c","i","m","a","l">>), NumVal(<<"9","5">>)),
      Entry(Key(<<"g","p","s","_","d","e","c","i","m","a","l","_","l","a","t",
                  "i","t","u","d","e">>), StrVal(<<"-","7">>)),
      Entry(Key(<<"G","P","S","_","L","o","n","g","i","t","u","d","e","_","D",
                  "e","c","i","m","a","l">>), StrVal(<<"5",".","0">>)),
      Entry(Key(<<"g","p","s","_","d","e","c","i","m","a","l","_","l","o","n",
                  "g","i","t","u","d","e">>), StrVal(<<" ","4","0",".","2",
                                                       "5"," ">>)),
      Entry(Key(<<"g","p","s","_","d","e","c","i","m","a","l","_","l","o","n",
                  "g","i","t","u","d","e">>), ObjVal),
      Entry(Key(<<"G","P","S","_","C","o","o","r","d","i","n","a","t","e","s">>), StrVal(<<
                                                                                           "1",
                                                                                           "2",
                                                                                           ".",
                                                                                           "5",
                                                                                           ",",
                                                                                           " ",
                                                                                           "7",
                                                                                           ".",
                                                                                           "2",
                                                                                           "5">>)),
      Entry(Key(<<"G","P","S","_","C","o","o","r","d","i","n","a","t","e","s">>), StrVal(<<
                                                                                           "3",
                                                                                           ",",
                                                                                           " ",
                                                                                           "x">>)),
      Entry(Key(<<"M","a","p","_","c","o","o","r","d","i","n","a","t","e","s">>), StrVal(<<
                                                                                           "1",
                                                                                           ",",
                                                                                           "2",
                                                                                           ",",
                                                                                           "3">>)),
      Entry(Key(<<"M","a","p","_","c","o","o","r","d","i","n","a","t","e","s">>), StrVal(<<
                                                                                           "x",
                                                                                           ",",
                                                                                           " ",
                                                                                           "9">>)),
      Entry(Key(<<"O","S","I","N","T","_","C","o","o","r","d","i","n","a","t",
                  "e","s">>), StrVal(<<"n","a","n",","," ","1","8","1">>)),
      Entry(Key(<<"F","i","l","e","_","N","a","m","e">>), StrVal(<<"a",".",
                                                                   "p","n","g">>)),
      Entry(IntKey(<<"7">>), StrVal(<<"1">>)) }

\* the entries the records given to enhance_metadata are built from
BaseEntries ==
    { Entry(Key(<<"G","P","S","_","C","o","o","r","d","i","n","a","t","e","s">>), StrVal(<<
                                                                                           "1",
                                                                                           "2",
                                                                                           ".",
                                                                                           "5",
                                                                                           ",",
                                                                                           " ",
                                                                                           "5",
                                                                                           ".",
                                                                                           "0">>)),
      Entry(Key(<<"M","a","k","e">>), StrVal(<<"C","a","n","o","n">>)),
      Entry(Key(<<"M","o","d","e","l">>), StrVal(<<"E","O","S">>)),
      Entry(Key(<<"D","a","t","e","T","i","m","e">>), StrVal(<<"2","0","2",
                                                               "1",":","0",
                                                               "5",":","0","1">>)),
      Entry(Key(<<"X","M","P","_","R","a","w">>), StrVal(<<"h","t","t","p",
                                                           ":","/","/","a",
                                                           "@","b",".","c">>)),
      Entry(Key(<<"C","o","m","m","e","n","t">>), ObjVal),
      Entry(IntKey(<<"7">>), StrVal(<<"1">>)),
      Entry(Key(<<"O","S","I","N","T","_","T","i","m","e","s","t","a","m","p",
                  "s","_","F","o","u","n","d">>), StrVal(<<"o","l","d">>)),
      Entry(Key(<<"O","S","I","N","T","_","U","R","L","_","I","n","_","X","M",
                  "P","_","R","a","w">>), StrVal(<<"o","l","d">>)) }

ImagePaths == {StrPath(<<"/","p","/","I","M","G","_","1",".","C","R","2">>), StrPath(<<
                                                                                       "/",
                                                                                       "p",
                                                                                       "/",
                                                                                       "a",
                                                                                       ".",
                                                                                       "p",
                                                                                       "n",
                                                                                       "g">>)}

(***************************************************************************)
(* _extract_coordinates applied to a record                                *)
(***************************************************************************)
InitCoord ==
    /\ pc = "start"
    /\ op = "none"
    /\ \E md \in RecordsOver(CoordEntries, MaxLen) : heap = <<md>>
    /\ metadata = 1
    /\ image_path = StrPath(<<"/","p","/","a",".","p","n","g">>)
    /\ env = NominalEnv
    /\ coords = NoCoords
    /\ ret = 0
    /\ raised = FALSE
    /\ args = NoneVal
    /\ out = NoneVal
    /\ disk = NoneVal
    /\ window = NoneVal

ExtractCoordinates ==
    /\ pc = "start"
    /\ pc' = "done"
    /\ op' = "_extract_coordinates"
    /\ coords' = extract_coordinates(heap[metadata])
    /\ UNCHANGED <<disk, window, heap, metadata, image_path, env, ret, raised, args, out>>

NextCoord == ExtractCoordinates

SpecCoord == InitCoord /\ [][NextCoord]_vars

(***************************************************************************)
(* enhance_metadata applied to a record                                    *)
(***************************************************************************)
InitEnhance ==
    /\ pc = "start"
    /\ op = "none"
    /\ \E md \in RecordsOver(BaseEntries, MaxBase) : heap = <<md>>
    /\ metadata = 1
    /\ image_path \in ImagePaths
    /\ env \in EnhanceEnvs
    /\ coords = NoCoords
    /\ ret = 0
    /\ raised = FALSE
    /\ args = NoneVal
    /\ out = NoneVal
    /\ disk = NoneVal
    /\ window = NoneVal

EnhanceMetadata ==
    /\ pc = "start"
    /\ pc' = "done"
    /\ op' = "enhance_metadata"
    /\ \E r \in {enhance_metadata(heap, metadata, image_path, env)} :
           heap' = r.heap /\ ret' = r.ret
    /\ UNCHANGED <<disk, window, metadata, image_path, env, coords, raised, args, out>>

NextEnhance == EnhanceMetadata

SpecEnhance == InitEnhance /\ [][NextEnhance]_vars

(***************************************************************************)
(* UltraMetadataExtractor: value normalisation and coordinate conversion   *)
(***************************************************************************)
\* str.upper(), one character
UpperChar(c) ==
    IF \E i \in 1..Len(LowerChars) : LowerChars[i] = c
    THEN UpperChars[CHOOSE i \in 1..Len(LowerChars) : LowerChars[i] = c]
    ELSE c

\* str.upper()
Upper(s) == [i \in 1..Len(s) |-> UpperChar(s[i])]

\* a value a tag reader hands back: t is its shape ("ifd": an object with
\* .values, "bytes", "str", "int", "list", "none"), s its str() or its bytes,
\* vs the str() of its .values, items its elements as floats
TagVal(t, s, vs, items) == [t |-> t, s |-> s, vs |-> vs, items |-> items]
IfdTag(s, vs, items) == TagVal("ifd", s, vs, items)
BytesVal(s) == TagVal("bytes", s, <<>>, <<>>)
Tag(name, v) == [name |-> name, v |-> v]

\* '|'.join(parts)
RECURSIVE JoinPipe(_)
JoinPipe(parts) ==
    IF Len(parts) = 1 THEN parts[1]
    ELSE parts[1] \o <<"|">> \o JoinPipe(Tail(parts))

\* bytes.decode('utf-8', errors='ignore'): "xFF" stands for a byte that is
\* not UTF-8 and is dropped, every other byte decodes to its character
IsUtf8(b) == b # "xFF"
Decode(bs) == SelectSeq(bs, IsUtf8)

\* f"binary_data_{n}_bytes"
Placeholder(n) == <<"b","i","n","a","r","y","_","d","a","t","a","_">> \o NatChars(n) \o <<
                                                                                          "_",
                                                                                          "b",
                                                                                          "y",
                                                                                          "t",
                                                                                          "e",
                                                                                          "s">>

\* _process_exif_value with the placeholder counting the decoded text
process_exif_value_decoded(value) ==
    IF value.t = "bytes"
    THEN LET decoded == Strip(Decode(value.s))
         IN  IF decoded # <<>> /\ ~(\A i \in 1..Len(decoded) :
                                       decoded[i] \in {"NUL", " "})
             THEN StrVal(decoded)
             ELSE StrVal(Placeholder(Len(decoded)))
    ELSE PyNone

\* _process_exif_value: the normalised value, PyNone when there is none
process_exif_value(value) ==
    IF value.t = "bytes"
    THEN LET decoded == Strip(Decode(value.s))
         IN  IF decoded # <<>> /\ ~(\A i \in 1..Len(decoded) :
                                       decoded[i] \in {"NUL", " "})
             THEN StrVal(decoded)
             ELSE StrVal(Placeholder(Len(value.s)))
    ELSE IF value.t = "ifd" THEN StrVal(value.vs)
    ELSE IF value.t = "list"
    THEN IF Len(value.items) > 0
         THEN StrVal(JoinPipe([i \in 1..Len(value.items) |-> Repr(value.items[i])]))
         ELSE PyNone
    ELSE IF value.t = "none" THEN PyNone
    ELSE IF Strip(value.s) # <<>> THEN StrVal(Strip(value.s)) ELSE PyNone

\* x + y of two floats
FAdd(x, y) ==
    IF x.kind = "nan" \/ y.kind = "nan" THEN NaN
    ELSE IF x.kind = "inf" /\ y.kind = "inf"
         THEN (IF x.v = y.v THEN x ELSE NaN)
    ELSE IF x.kind = "inf" THEN x
    ELSE IF y.kind = "inf" THEN y
    ELSE IF x.kind = "negzero" /\ y.kind = "negzero" THEN NegZero
    ELSE Num(x.v + y.v)

\* x / k for a float x and k in {60.0, 3600.0}: exact when x is a whole
\* number of hundredths of a minute or of thousandths of a second
FDiv(x, k) ==
    IF x.kind = "num" THEN Num(x.v \div k) ELSE x

\* _convert_gps_coord with the seconds left out
convert_gps_coord_minutes(values) ==
    IF Len(values) >= 2
    THEN IF \A i \in 1..2 : IsFloat(values[i])
         THEN FAdd(values[1], FDiv(values[2], 60))
         ELSE Num(0)
    ELSE IF Len(values) = 1
    THEN IF IsFloat(values[1]) THEN values[1] ELSE Num(0)
    ELSE Num(0)

\* _convert_gps_coord of a sequence whose elements are what float() makes of
\* them: a float, or FloatError when float() raises
convert_gps_coord(values) ==
    IF Len(values) >= 3
    THEN IF \A i \in 1..3 : IsFloat(values[i])
         THEN FAdd(FAdd(values[1], FDiv(values[2], 60)), FDiv(values[3], 3600))
         ELSE Num(0)
    ELSE IF Len(values) = 2
    THEN IF \A i \in 1..2 : IsFloat(values[i])
         THEN FAdd(values[1], FDiv(values[2], 60))
         ELSE Num(0)
    ELSE IF Len(values) = 1
    THEN IF IsFloat(values[1]) THEN values[1] ELSE Num(0)
    ELSE Num(0)

\* x with its sign kept
Pos(x) == x

\* -x
Neg(x) ==
    IF x.kind = "num" THEN Signed(-1, x.v)
    ELSE IF x.kind = "negzero" THEN Num(0)
    ELSE IF x.kind = "inf" THEN Inf(-x.v)
    ELSE x

\* _decimal_to_dms with the seconds cut to whole seconds
decimal_to_dms_whole(decimal, is_lat, r) ==
    IF ~IsFinite(decimal) THEN <<"C","o","n","v","e","r","s","i","o","n"," ",
                                 "e","r","r","o","r">>
    ELSE LET a == Abs(decimal.v)
             minutes_decimal == (a % Unit) * 60
             seconds == ((minutes_decimal % Unit) * 60) \div Unit
         IN  NatChars(a \div Unit) \o <<"deg", " ">>
             \o NatChars(minutes_decimal \div Unit) \o <<"'"," ">>
             \o FormatFixed(Num(seconds * Unit), 2, r.up) \o <<"\""," ">>
             \o (IF decimal.v < 0 THEN (IF is_lat THEN <<"S">> ELSE <<"W">>)
                 ELSE (IF is_lat THEN <<"N">> ELSE <<"E">>))

\* _decimal_to_dms; "deg" stands for the degree sign.  int() of nan or inf
\* raises, and -0.0 is not below 0 and keeps its sign down to the seconds
decimal_to_dms(decimal, is_lat, r) ==
    IF ~IsFinite(decimal) THEN <<"C","o","n","v","e","r","s","i","o","n"," ",
                                 "e","r","r","o","r">>
    ELSE LET direction == IF decimal.v < 0
                          THEN (IF is_lat THEN <<"S">> ELSE <<"W">>)
                          ELSE (IF is_lat THEN <<"N">> ELSE <<"E">>)
             a == Abs(decimal.v)
             degrees == a \div Unit
             minutes_decimal == (a % Unit) * 60
             slips == /\ r.slip
                      /\ minutes_decimal % Unit = 0
                      /\ minutes_decimal \div Unit >= 1
             minutes == IF slips THEN (minutes_decimal \div Unit) - 1
                        ELSE minutes_decimal \div Unit
             seconds == IF decimal.kind = "negzero" THEN NegZero
                        ELSE IF slips THEN Num(60 * Unit)
                        ELSE Num((minutes_decimal % Unit) * 60)
         IN  NatChars(degrees) \o <<"deg", " ">> \o NatChars(minutes) \o <<
                                                                           "'",
                                                                           " ">>
             \o FormatFixed(seconds, 2, r.up) \o <<"\""," ">> \o direction

(***************************************************************************)
(* UltraMetadataExtractor: the ten passes                                  *)
(***************************************************************************)
\* the dict built by assigning the entries in order
Dict(entries) == Update(<<>>, entries)

\* os.path.splitext(path)[1]: from the last dot of the name, leading dots apart
Splitext(p) ==
    LET name == Basename(p)
        dots == {i \in 1..Len(name) :
                    name[i] = "." /\ \E j \in 1..(i - 1) : name[j] # "."}
    IN  IF dots = {} THEN <<>>
        ELSE SubSeq(name, CHOOSE i \in dots : \A j \in dots : j <= i, Len(name))

\* pass n raises inside its reader
Raises(e, n) == n \in e.failing

\* pass 1
get_file_info(path, e) ==
    IF ~CanOpen(path, e) THEN <<>>
    ELSE << Entry(Key(<<"F","i","l","e","_","P","a","t","h">>), StrVal(path.s)),
            Entry(Key(<<"F","i","l","e","_","N","a","m","e">>), StrVal(Basename(path.s))),
            Entry(Key(<<"F","i","l","e","_","S","i","z","e","_","B","y","t",
                        "e","s">>), NumVal(NatChars(Len(FileBytes(e))))),
            Entry(Key(<<"F","i","l","e","_","S","i","z","e","_","M","B">>), StrVal(<<
                                                                                     "0",
                                                                                     ".",
                                                                                     "0",
                                                                                     "0">>)),
            Entry(Key(<<"F","i","l","e","_","C","r","e","a","t","e","d">>), StrVal(e.ctime)),
            Entry(Key(<<"F","i","l","e","_","M","o","d","i","f","i","e","d">>), StrVal(e.mtime)),
            Entry(Key(<<"F","i","l","e","_","E","x","t","e","n","s","i","o",
                        "n">>), StrVal(Lower(Splitext(path.s)))) >>

\* the tags exifread finds in the file
TagsOf(e) == IF e.file = "data" THEN e.tags ELSE <<>>

\* value in [None, "", b'', 0]: what passes 3 and 4 skip before normalising
EmptyRaw(v) ==
    \/ v.t \in {"str", "bytes"} /\ v.s = <<>>
    \/ v.t = "int" /\ v.s = <<"0">>
    \/ v.t = "none"

\* the entries prefix + tag name -> normalised value; skip: the tag names left
\* out; blank: a value that is blank text is left out too; empty: so is a raw
\* value that is empty
RECURSIVE Normalised(_, _, _, _, _)
Normalised(prefix, tags, skip, blank, empty) ==
    IF tags = <<>> THEN <<>>
    ELSE LET p == process_exif_value(tags[1].v)
         IN  (IF \/ tags[1].name \in skip
                 \/ empty /\ EmptyRaw(tags[1].v)
                 \/ ~Truthy(p)
                 \/ blank /\ Strip(Str(p)) = <<>>
              THEN <<>>
              ELSE << Entry(Key(prefix \o tags[1].name), p) >>)
             \o Normalised(prefix, Tail(tags), skip, blank, empty)

\* pass 2
deep_exifread(path, e) ==
    IF ~CanOpen(path, e) \/ Raises(e, 2) THEN <<>>
    ELSE Dict(Normalised(<<"E","X","I","F","D","E","E","P","_">>, TagsOf(e),
                         {<<"J","P","E","G","T","h","u","m","b","n","a","i",
                            "l">>, <<"T","I","F","F","T","h","u","m","b","n",
                                     "a","i","l">>}, TRUE, FALSE))

\* Image.open(path) succeeds: a file object opens as a path does
CanDecode(path, e) ==
    /\ e.file = "data"
    /\ e.image.ok
    /\ path.kind = "str" \/ path.kind = "obj"

\* f"{width}x{height}"
SizeText(img) == NatChars(img.width) \o <<"x">> \o NatChars(img.height)

\* the entries PILINFO_key -> str(value) of img.info, exif and icc_profile apart
RECURSIVE InfoFields(_)
InfoFields(info) ==
    IF info = <<>> THEN <<>>
    ELSE (IF info[1].name \in {<<"e","x","i","f">>, <<"i","c","c","_","p","r",
                                                      "o","f","i","l","e">>} THEN <<>>
          ELSE << Entry(Key(<<"P","I","L","I","N","F","O","_">> \o info[1].name), StrVal(info[1].v.s)) >>)
         \o InfoFields(Tail(info))

\* pass 3; a reader that raises does so in _getexif, after the first six fields
extended_pil_exif(path, e) ==
    IF ~CanDecode(path, e) THEN <<>>
    ELSE LET img == e.image
             head == << Entry(Key(<<"P","I","L","_","F","o","r","m","a","t">>), StrVal(img.format)),
                        Entry(Key(<<"P","I","L","_","M","o","d","e">>), StrVal(img.mode)),
                        Entry(Key(<<"P","I","L","_","S","i","z","e">>), StrVal(SizeText(img))),
                        Entry(Key(<<"P","I","L","_","W","i","d","t","h">>), NumVal(NatChars(img.width))),
                        Entry(Key(<<"P","I","L","_","H","e","i","g","h","t">>), NumVal(NatChars(img.height))),
                        Entry(Key(<<"P","I","L","_","B","a","n","d","s">>), StrVal(img.bands)) >>
         IN  IF Raises(e, 3) THEN head
             ELSE Dict(head \o Normalised(<<"P","I","L","E","X","I","F","_">>, img.exif, {}, FALSE, TRUE)
                       \o InfoFields(img.info))

\* lines 509-511: a tag piexif has no name for is recorded as an error field
RECURSIVE TagErrors(_)
TagErrors(ids) ==
    IF ids = <<>> THEN <<>>
    ELSE << Entry(Key(<<"P","I","E","X","I","F","_","E","R","R","O","R","_",
                        "0","t","h","_">> \o ids[1]),
                  StrVal(<<"T","a","g"," ","e","r","r","o","r",":"," ">> \o ids[1])) >>
         \o TagErrors(Tail(ids))

\* pass 4: the tags of the 0th IFD, by name, and those without a name
low_level_piexif(path, e) ==
    IF ~CanOpen(path, e) \/ ~e.image.ok \/ Raises(e, 4) THEN <<>>
    ELSE Dict(Normalised(<<"P","I","E","X","I","F","_","0","t","h","_">>, e.image.exif, {}, FALSE, TRUE)
              \o TagErrors(e.image.unnamed))

\* the tags of the file whose name holds 'GPS'
RECURSIVE GpsTags(_)
GpsTags(tags) ==
    IF tags = <<>> THEN <<>>
    ELSE (IF Contains(<<"G","P","S">>, tags[1].name) THEN <<tags[1]>> ELSE <<>>)
         \o GpsTags(Tail(tags))

HasTag(tags, name) == \E i \in 1..Len(tags) : tags[i].name = name
TagNamed(tags, name) == tags[CHOOSE i \in 1..Len(tags) : tags[i].name = name].v

\* lines 536-562: the coordinate fields
GpsCoordinateFields(gps_data, fp) ==
    IF ~(HasTag(gps_data, <<"G","P","S"," ","G","P","S","L","a","t","i","t",
                            "u","d","e">>) /\ HasTag(gps_data, <<"G","P","S",
                                                                 " ","G","P",
                                                                 "S","L","o",
                                                                 "n","g","i",
                                                                 "t","u","d",
                                                                 "e">>))
    THEN <<>>
    ELSE IF \/ TagNamed(gps_data, <<"G","P","S"," ","G","P","S","L","a","t",
                                    "i","t","u","d","e">>).t # "ifd"
            \/ TagNamed(gps_data, <<"G","P","S"," ","G","P","S","L","o","n",
                                    "g","i","t","u","d","e">>).t # "ifd"
    THEN << Entry(Key(<<"G","P","S","_","E","r","r","o","r">>),
                  StrVal(<<"C","o","o","r","d","i","n","a","t","e"," ","p",
                           "r","o","c","e","s","s","i","n","g",":"," ","o",
                           "b","j","e","c","t"," ","h","a","s"," ","n","o",
                           " ","a","t","t","r","i","b","u","t","e"," ","'",
                           "v","a","l","u","e","s","'">>)) >>
    ELSE LET lat0 == convert_gps_coord(TagNamed(gps_data, <<"G","P","S"," ",
                                                            "G","P","S","L",
                                                            "a","t","i","t",
                                                            "u","d","e">>).items)
             lon0 == convert_gps_coord(TagNamed(gps_data, <<"G","P","S"," ",
                                                            "G","P","S","L",
                                                            "o","n","g","i",
                                                            "t","u","d","e">>).items)
             hasLatRef == HasTag(gps_data, <<"G","P","S"," ","G","P","S","L",
                                             "a","t","i","t","u","d","e","R",
                                             "e","f">>)
             hasLonRef == HasTag(gps_data, <<"G","P","S"," ","G","P","S","L",
                                             "o","n","g","i","t","u","d","e",
                                             "R","e","f">>)
             latRef == IF hasLatRef
                       THEN Upper(TagNamed(gps_data, <<"G","P","S"," ","G",
                                                       "P","S","L","a","t",
                                                       "i","t","u","d","e",
                                                       "R","e","f">>).s)
                       ELSE <<>>
             lonRef == IF hasLonRef
                       THEN Upper(TagNamed(gps_data, <<"G","P","S"," ","G",
                                                       "P","S","L","o","n",
                                                       "g","i","t","u","d",
                                                       "e","R","e","f">>).s)
                       ELSE <<>>
             lat == IF hasLatRef /\ latRef = <<"S">> THEN Neg(lat0) ELSE lat0
             lon == IF hasLonRef /\ lonRef = <<"W">> THEN Neg(lon0) ELSE lon0
         IN  (IF hasLatRef THEN << Entry(Key(<<"G","P","S","_","L","a","t",
                                               "_","R","e","f">>), StrVal(latRef)) >>
              ELSE <<>>)
          \o (IF hasLonRef THEN << Entry(Key(<<"G","P","S","_","L","o","n",
                                               "_","R","e","f">>), StrVal(lonRef)) >>
              ELSE <<>>)
          \o << Entry(Key(<<"G","P","S","_","L","a","t","i","t","u","d","e",
                            "_","D","e","c","i","m","a","l">>),
                      StrVal(FormatFixed(lat, 8, fp.lat.fix))),
                Entry(Key(<<"G","P","S","_","L","o","n","g","i","t","u","d",
                            "e","_","D","e","c","i","m","a","l">>),
                      StrVal(FormatFixed(lon, 8, fp.lon.fix))),
                Entry(Key(<<"G","P","S","_","C","o","o","r","d","i","n","a",
                            "t","e","s">>),
                      StrVal(FormatFixed(lat, 6, fp.lat.fix) \o <<","," ">>
                             \o FormatFixed(lon, 6, fp.lon.fix))),
                Entry(Key(<<"G","P","S","_","G","o","o","g","l","e","_","M",
                            "a","p","s">>),
                      StrVal(<<"h","t","t","p","s",":","/","/","m","a","p",
                               "s",".","g","o","o","g","l","e",".","c","o",
                               "m","/","?","q","=">> \o Repr(lat) \o <<",">>
                             \o Repr(lon))),
                Entry(Key(<<"G","P","S","_","O","p","e","n","S","t","r","e",
                            "e","t","M","a","p">>),
                      StrVal(<<"h","t","t","p","s",":","/","/","w","w","w",
                               ".","o","p","e","n","s","t","r","e","e","t",
                               "m","a","p",".","o","r","g","/","?","m","l",
                               "a","t","=">> \o Repr(lat)
                             \o <<"&","m","l","o","n","=">> \o Repr(lon))),
                Entry(Key(<<"G","P","S","_","L","a","t","i","t","u","d","e",
                            "_","D","M","S">>), StrVal(decimal_to_dms(lat, TRUE, fp.lat))),
                Entry(Key(<<"G","P","S","_","L","o","n","g","i","t","u","d",
                            "e","_","D","M","S">>), StrVal(decimal_to_dms(lon, FALSE, fp.lon))) >>

\* lines 568-580: the auxiliary fields
GpsMappingFields(gps_data) ==
    LET gps_mapping == << <<<<"G","P","S"," ","G","P","S","A","l","t","i","t",
                              "u","d","e">>, <<"A","l","t","i","t","u","d","e">>>>,
                          <<<<"G","P","S"," ","G","P","S","T","i","m","e","S",
                              "t","a","m","p">>, <<"T","i","m","e","S","t",
                                                   "a","m","p">>>>,
                          <<<<"G","P","S"," ","G","P","S","D","a","t","e">>, <<
                                                                               "D",
                                                                               "a",
                                                                               "t",
                                                                               "e">>>>,
                          <<<<"G","P","S"," ","G","P","S","P","r","o","c","e",
                              "s","s","i","n","g","M","e","t","h","o","d">>, <<
                                                                               "P",
                                                                               "r",
                                                                               "o",
                                                                               "c",
                                                                               "e",
                                                                               "s",
                                                                               "s",
                                                                               "i",
                                                                               "n",
                                                                               "g",
                                                                               "M",
                                                                               "e",
                                                                               "t",
                                                                               "h",
                                                                               "o",
                                                                               "d">>>>,
                          <<<<"G","P","S"," ","G","P","S","S","p","e","e","d">>, <<
                                                                                   "S",
                                                                                   "p",
                                                                                   "e",
                                                                                   "e",
                                                                                   "d">>>>,
                          <<<<"G","P","S"," ","G","P","S","T","r","a","c","k">>, <<
                                                                                   "T",
                                                                                   "r",
                                                                                   "a",
                                                                                   "c",
                                                                                   "k">>>>,
                          <<<<"G","P","S"," ","G","P","S","I","m","g","D","i",
                              "r","e","c","t","i","o","n">>, <<"I","m","a",
                                                               "g","e","D",
                                                               "i","r","e",
                                                               "c","t","i",
                                                               "o","n">>>> >>
        F[i \in 0..Len(gps_mapping)] ==
            IF i = 0 THEN <<>>
            ELSE F[i - 1]
                 \o (IF HasTag(gps_data, gps_mapping[i][1])
                     THEN << Entry(Key(<<"G","P","S","_">> \o gps_mapping[i][2]),
                                   StrVal(TagNamed(gps_data, gps_mapping[i][1]).s)) >>
                     ELSE <<>>)
    IN  F[Len(gps_mapping)]

\* pass 5
detailed_gps(path, e) ==
    IF ~CanOpen(path, e) \/ Raises(e, 5) THEN <<>>
    ELSE LET gps_data == GpsTags(TagsOf(e))
         IN  IF gps_data = <<>> THEN <<>>
             ELSE Dict([i \in 1..Len(gps_data) |->
                           Entry(Key(<<"G","P","S","_","R","A","W","_">> \o gps_data[i].name),
                                 StrVal(gps_data[i].v.s))]
                       \o << Entry(Key(<<"G","P","S","_","P","r","e","s","e",
                                         "n","c","e">>), StrVal(<<"Y","E","S">>)) >>
                       \o GpsCoordinateFields(gps_data, e.fp)
                       \o GpsMappingFields(gps_data))

\* the tags of the file whose name holds 'makernote', whatever the case
RECURSIVE MakerTags(_)
MakerTags(tags) ==
    IF tags = <<>> THEN <<>>
    ELSE (IF Contains(<<"m","a","k","e","r","n","o","t","e">>, Lower(tags[1].name)) THEN <<tags[1]>>
          ELSE <<>>)
         \o MakerTags(Tail(tags))

\* pass 6
extract_makernotes(path, e) ==
    IF ~CanOpen(path, e) \/ Raises(e, 6) THEN <<>>
    ELSE LET maker_tags == MakerTags(TagsOf(e))
         IN  IF maker_tags = <<>>
             THEN << Entry(Key(<<"M","a","k","e","r","N","o","t","e","s","_",
                                 "P","r","e","s","e","n","t">>), StrVal(<<"N",
                                                                          "O">>)) >>
             ELSE Dict(<< Entry(Key(<<"M","a","k","e","r","N","o","t","e","s",
                                      "_","P","r","e","s","e","n","t">>), StrVal(<<
                                                                                   "Y",
                                                                                   "E",
                                                                                   "S">>)) >>
                       \o Normalised(<<"M","A","K","E","R","_">>, maker_tags, {}, FALSE, FALSE)
                       \o << Entry(Key(<<"M","a","k","e","r","N","o","t","e",
                                         "s","_","C","o","u","n","t">>),
                                   NumVal(NatChars(Len(maker_tags)))) >>)

\* f"{width/height:.4f}", the quotient rounded to four places
AspectText(img) ==
    LET q == (img.width * 10000 + (img.height \div 2)) \div img.height
    IN  NatChars(q \div 10000) \o <<".">>
        \o <<DigitChars[((q \div 1000) % 10) + 1], DigitChars[((q \div 100) % 10) + 1],
             DigitChars[((q \div 10) % 10) + 1], DigitChars[(q % 10) + 1]>>

\* pass 7
image_technical_specs(path, e) ==
    IF ~CanDecode(path, e) \/ Raises(e, 7) THEN <<>>
    ELSE LET img == e.image
         IN  << Entry(Key(<<"T","e","c","h","n","i","c","a","l","_","F","o",
                            "r","m","a","t">>), StrVal(img.format)),
                Entry(Key(<<"T","e","c","h","n","i","c","a","l","_","M","o",
                            "d","e">>), StrVal(img.mode)),
                Entry(Key(<<"T","e","c","h","n","i","c","a","l","_","S","i",
                            "z","e">>), StrVal(SizeText(img))),
                Entry(Key(<<"T","e","c","h","n","i","c","a","l","_","W","i",
                            "d","t","h">>), NumVal(NatChars(img.width))),
                Entry(Key(<<"T","e","c","h","n","i","c","a","l","_","H","e",
                            "i","g","h","t">>), NumVal(NatChars(img.height))),
                Entry(Key(<<"T","e","c","h","n","i","c","a","l","_","A","s",
                            "p","e","c","t","_","R","a","t","i","o">>), StrVal(AspectText(img))),
                Entry(Key(<<"T","e","c","h","n","i","c","a","l","_","C","o",
                            "l","o","r","_","B","a","n","d","s">>), StrVal(img.bands)),
                Entry(Key(<<"T","e","c","h","n","i","c","a","l","_","C","h",
                            "a","n","n","e","l","s">>), NumVal(NatChars(img.channels))) >>
             \o (IF img.mode \in {<<"L">>, <<"P">>}
                 THEN << Entry(Key(<<"T","e","c","h","n","i","c","a","l","_",
                                     "B","i","t","_","D","e","p","t","h">>), StrVal(<<
                                                                                      "8">>)) >>
                 ELSE IF img.mode \in {<<"I">>, <<"F">>}
                 THEN << Entry(Key(<<"T","e","c","h","n","i","c","a","l","_",
                                     "B","i","t","_","D","e","p","t","h">>), StrVal(<<
                                                                                      "3",
                                                                                      "2">>)) >>
                 ELSE IF img.mode = <<"R","G","B">>
                 THEN << Entry(Key(<<"T","e","c","h","n","i","c","a","l","_",
                                     "B","i","t","_","D","e","p","t","h">>), StrVal(<<
                                                                                      "2",
                                                                                      "4">>)) >>
                 ELSE IF img.mode = <<"R","G","B","A">>
                 THEN << Entry(Key(<<"T","e","c","h","n","i","c","a","l","_",
                                     "B","i","t","_","D","e","p","t","h">>), StrVal(<<
                                                                                      "3",
                                                                                      "2">>)) >>
                 ELSE <<>>)

\* pass 8; icc: "none", a profile that parses ("valid") or one that does not
color_analysis(path, e) ==
    IF ~CanDecode(path, e) \/ Raises(e, 8) THEN <<>>
    ELSE IF e.image.icc = "none"
    THEN << Entry(Key(<<"C","o","l","o","r","_","I","C","C","_","P","r","e",
                        "s","e","n","t">>), StrVal(<<"N","O">>)) >>
    ELSE << Entry(Key(<<"C","o","l","o","r","_","I","C","C","_","P","r","e",
                        "s","e","n","t">>), StrVal(<<"Y","E","S">>)),
            Entry(Key(<<"C","o","l","o","r","_","I","C","C","_","S","i","z",
                        "e","_","B","y","t","e","s">>), NumVal(<<"5","6","0">>)) >>
         \o (IF e.image.icc = "valid"
             THEN << Entry(Key(<<"C","o","l","o","r","_","I","C","C","_","D",
                                 "e","s","c","r","i","p","t","i","o","n">>), StrVal(<<
                                                                                      "s",
                                                                                      "R",
                                                                                      "G",
                                                                                      "B">>)),
                     Entry(Key(<<"C","o","l","o","r","_","I","C","C","_","M",
                                 "a","n","u","f","a","c","t","u","r","e","r">>), StrVal(<<
                                                                                          "I",
                                                                                          "E",
                                                                                          "C">>)),
                     Entry(Key(<<"C","o","l","o","r","_","I","C","C","_","M",
                                 "o","d","e","l">>), StrVal(<<"s","R","G","B">>)),
                     Entry(Key(<<"C","o","l","o","r","_","I","C","C","_","C",
                                 "o","p","y","r","i","g","h","t">>), StrVal(<<
                                                                              "(",
                                                                              "c",
                                                                              ")",
                                                                              " ",
                                                                              "H",
                                                                              "P">>)) >>
             ELSE << Entry(Key(<<"C","o","l","o","r","_","I","C","C","_","E",
                                 "r","r","o","r">>),
                           StrVal(<<"P","r","o","f","i","l","e"," ","p","a",
                                    "r","s","i","n","g",":"," ","c","a","n",
                                    "n","o","t"," ","o","p","e","n"," ","p",
                                    "r","o","f","i","l","e">>)) >>)

\* raw.find(pat, start): the least offset from start on where pat occurs, or -1
Find(raw, pat, start) ==
    LET hits == {i \in start..(Len(raw) - Len(pat)) :
                    \A j \in 1..Len(pat) : raw[i + j] = pat[j]}
    IN  IF hits = {} THEN -1 ELSE CHOOSE i \in hits : \A j \in hits : i <= j

\* raw[a:b]
Slice(raw, a, b) == SubSeq(raw, a + 1, IF b < Len(raw) THEN b ELSE Len(raw))

\* lines 684-703
XmpFields(raw) ==
    LET x1 == Find(raw, <<"<","x",":","x","m","p","m","e","t","a">>, 0)
        xmp_start == IF x1 = -1 THEN Find(raw, <<"<","x","p","a","c","k","e",
                                                 "t">>, 0) ELSE x1
    IN  IF xmp_start = -1
        THEN << Entry(Key(<<"X","M","P","_","P","r","e","s","e","n","t">>), StrVal(<<
                                                                                     "N",
                                                                                     "O">>)) >>
        ELSE LET e1 == Find(raw, <<"<","/","x",":","x","m","p","m","e","t",
                                   "a",">">>, xmp_start)
                 end_tag == IF e1 = -1 THEN Find(raw, <<"<","/","x","p","a",
                                                        "c","k","e","t",">">>, xmp_start)
                            ELSE e1
                 end_index == IF end_tag # -1 THEN end_tag + XmpTagLen
                              ELSE xmp_start + XmpCap
             IN  << Entry(Key(<<"X","M","P","_","R","a","w">>), StrVal(Decode(Slice(raw, xmp_start, end_index)))),
                    Entry(Key(<<"X","M","P","_","P","r","e","s","e","n","t">>), StrVal(<<
                                                                                         "Y",
                                                                                         "E",
                                                                                         "S">>)) >>

\* lines 705-715
IptcFields(raw) ==
    IF \/ Contains(<<"P","h","o","t","o","s","h","o","p"," ","3",".","0">>, raw)
       \/ Contains(<<"I","P","T","C">>, raw)
       \/ Contains(<<"8","B","I","M">>, raw)
    THEN << Entry(Key(<<"I","P","T","C","_","P","r","e","s","e","n","t">>), StrVal(<<
                                                                                     "Y",
                                                                                     "E",
                                                                                     "S">>)),
            Entry(Key(<<"I","P","T","C","_","S","a","m","p","l","e">>), StrVal(Decode(Slice(raw, 0, IptcSample)))) >>
    ELSE << Entry(Key(<<"I","P","T","C","_","P","r","e","s","e","n","t">>), StrVal(<<
                                                                                     "N",
                                                                                     "O">>)) >>

\* pass 9
xmp_iptc_data(path, e) ==
    IF ~CanOpen(path, e) \/ Raises(e, 9) THEN <<>>
    ELSE XmpFields(FileBytes(e)) \o IptcFields(FileBytes(e))

\* os.path.splitext(path) raises TypeError: path is no str, bytes or PathLike
SplitextRaises(path) == path.kind # "str"

\* pass 10, for a path that splitext takes
raw_specific_data(path) ==
    LET file_ext == Lower(Splitext(path.s))
        raw_formats == << <<<<".","c","r","2">>, <<"C","a","n","o","n"," ",
                                                   "R","A","W">>>>, <<<<".",
                                                                        "n",
                                                                        "e",
                                                                        "f">>, <<
                                                                                 "N",
                                                                                 "i",
                                                                                 "k",
                                                                                 "o",
                                                                                 "n",
                                                                                 " ",
                                                                                 "R",
                                                                                 "A",
                                                                                 "W">>>>,
                          <<<<".","a","r","w">>, <<"S","o","n","y"," ","R",
                                                   "A","W">>>>, <<<<".","d",
                                                                    "n","g">>, <<
                                                                                 "D",
                                                                                 "i",
                                                                                 "g",
                                                                                 "i",
                                                                                 "t",
                                                                                 "a",
                                                                                 "l",
                                                                                 " ",
                                                                                 "N",
                                                                                 "e",
                                                                                 "g",
                                                                                 "a",
                                                                                 "t",
                                                                                 "i",
                                                                                 "v",
                                                                                 "e">>>>,
                          <<<<".","o","r","f">>, <<"O","l","y","m","p","u",
                                                   "s"," ","R","A","W">>>>, <<<<
                                                                                ".",
                                                                                "r",
                                                                                "w",
                                                                                "2">>, <<
                                                                                         "P",
                                                                                         "a",
                                                                                         "n",
                                                                                         "a",
                                                                                         "s",
                                                                                         "o",
                                                                                         "n",
                                                                                         "i",
                                                                                         "c",
                                                                                         " ",
                                                                                         "R",
                                                                                         "A",
                                                                                         "W">>>> >>
        hits == {i \in 1..Len(raw_formats) : raw_formats[i][1] = file_ext}
    IN  IF hits # {}
        THEN << Entry(Key(<<"R","A","W","_","F","o","r","m","a","t">>),
                      StrVal(raw_formats[CHOOSE i \in hits : TRUE][2])),
                Entry(Key(<<"R","A","W","_","F","i","l","e">>), StrVal(<<"Y",
                                                                         "E",
                                                                         "S">>)) >>
        ELSE << Entry(Key(<<"R","A","W","_","F","i","l","e">>), StrVal(<<"N",
                                                                         "O">>)) >>

(***************************************************************************)
(* UltraMetadataExtractor.extract_metadata and extract_osint_metadata      *)
(***************************************************************************)
\* what pass n contributes, pass 10 for a path that splitext takes
PassFields(n, path, e) ==
    IF n = 1 THEN get_file_info(path, e)
    ELSE IF n = 2 THEN deep_exifread(path, e)
    ELSE IF n = 3 THEN extended_pil_exif(path, e)
    ELSE IF n = 4 THEN low_level_piexif(path, e)
    ELSE IF n = 5 THEN detailed_gps(path, e)
    ELSE IF n = 6 THEN extract_makernotes(path, e)
    ELSE IF n = 7 THEN image_technical_specs(path, e)
    ELSE IF n = 8 THEN color_analysis(path, e)
    ELSE IF n = 9 THEN xmp_iptc_data(path, e)
    ELSE raw_specific_data(path)

\* the record after passes 1..n
RECURSIVE Merged(_, _, _)
Merged(n, path, e) ==
    IF n = 0 THEN <<>>
    ELSE Update(Merged(n - 1, path, e), PassFields(n, path, e))

\* the single-entry record of a failed extraction
ErrorRecord ==
    << Entry(Key(<<"E","r","r","o","r">>),
             StrVal(<<"E","x","t","r","a","c","t","i","o","n"," ","f","a","i",
                      "l","e","d",":"," ","e","x","p","e","c","t","e","d"," ",
                      "s","t","r",","," ","b","y","t","e","s"," ","o","r"," ",
                      "o","s",".","P","a","t","h","L","i","k","e"," ","o","b",
                      "j","e","c","t",","," ">>
                    \o <<"n","o","t"," ","B","u","f","f","e","r","e","d","R",
                         "e","a","d","e","r">>)) >>

Returned(record) == [raised |-> FALSE, record |-> record]

\* the outcome of extract_metadata
extract_metadata(path, e) ==
    IF SplitextRaises(path) THEN Returned(ErrorRecord)
    ELSE Returned(Merged(10, path, e))

\* the heap with one more dict, and the reference to it
Alloc(h, record) == [heap |-> Append(h, record), ret |-> Len(h) + 1]

Outcome(h, ref, r) == [heap |-> h, ret |-> ref, raised |-> r]

\* lines 402-411 without the try, for the outcome basic of line 400
OsintUnguarded(basic, h, path, e) ==
    LET a == Alloc(h, basic.record)
    IN  IF ~e.ctor THEN Outcome(a.heap, 0, TRUE)
        ELSE Only({Outcome(enh.heap, enh.ret, FALSE) :
                   enh \in {enhance_metadata(a.heap, a.ret, path, e)}})

\* extract_osint_metadata without its try
extract_osint_unguarded(h, path, e) ==
    Only({OsintUnguarded(basic, h, path, e) : basic \in {extract_metadata(path, e)}})

\* lines 402-411, for the outcome basic of line 400: OSINTEnhancer() raises
\* when e.ctor is FALSE, and the handler extracts again
OsintOutcome(basic, h, path, e) ==
    LET a == Alloc(h, basic.record)
    IN  IF ~e.ctor
        THEN Only({Outcome(Append(a.heap, again.record), Len(a.heap) + 1, again.raised) :
                   again \in {extract_metadata(path, e)}})
        ELSE Only({Outcome(enh.heap, enh.ret, FALSE) :
                   enh \in {enhance_metadata(a.heap, a.ret, path, e)}})

\* extract_osint_metadata; basic_metadata = self.extract_metadata(image_path)
\* is evaluated once
extract_osint_metadata(h, path, e) ==
    Only({OsintOutcome(basic, h, path, e) : basic \in {extract_metadata(path, e)}})

(***************************************************************************)
(* The files and paths of an extraction                                    *)
(***************************************************************************)
\* a JPEG with EXIF, GPS, a maker note, a thumbnail, XMP and a colour profile
JpegPhoto ==
    [content |-> <<"J","F","I","F","<","x",":","x","m","p","m","e","t","a",
                   ">","a","<","/","x",":","x","m","p","m","e","t","a",">",
                   "8","B","I","M","z","z">>,
     tags |-> << Tag(<<"I","m","a","g","e"," ","M","a","k","e">>, IfdTag(<<
                                                                           "C",
                                                                           "a",
                                                                           "n",
                                                                           "o",
                                                                           "n">>, <<
                                                                                    "C",
                                                                                    "a",
                                                                                    "n",
                                                                                    "o",
                                                                                    "n">>, <<>>)),
                 Tag(<<"E","X","I","F"," ","D","a","t","e","T","i","m","e",
                       "O","r","i","g","i","n","a","l">>,
                     IfdTag(<<"2","0","2","1",":","0","5",":","0","1"," ","1",
                              "0",":","0","0",":","0","0">>, <<"2","0","2",
                                                               "1",":","0",
                                                               "5",":","0",
                                                               "1"," ","1",
                                                               "0",":","0",
                                                               "0",":","0","0">>, <<>>)),
                 Tag(<<"G","P","S"," ","G","P","S","L","a","t","i","t","u",
                       "d","e","R","e","f">>, IfdTag(<<"N">>, <<"N">>, <<>>)),
                 Tag(<<"G","P","S"," ","G","P","S","L","a","t","i","t","u",
                       "d","e">>,
                     IfdTag(<<"[","1","2",","," ","3","0",","," ","0","]">>, <<
                                                                               "[",
                                                                               "1",
                                                                               "2",
                                                                               ",",
                                                                               " ",
                                                                               "3",
                                                                               "0",
                                                                               ",",
                                                                               " ",
                                                                               "0",
                                                                               "]">>,
                            <<Num(12 * Unit), Num(30 * Unit), Num(0)>>)),
                 Tag(<<"G","P","S"," ","G","P","S","L","o","n","g","i","t",
                       "u","d","e","R","e","f">>, IfdTag(<<"W">>, <<"W">>, <<>>)),
                 Tag(<<"G","P","S"," ","G","P","S","L","o","n","g","i","t",
                       "u","d","e">>,
                     IfdTag(<<"[","5",","," ","1","5",","," ","0","]">>, <<
                                                                           "[",
                                                                           "5",
                                                                           ",",
                                                                           " ",
                                                                           "1",
                                                                           "5",
                                                                           ",",
                                                                           " ",
                                                                           "0",
                                                                           "]">>,
                            <<Num(5 * Unit), Num(15 * Unit), Num(0)>>)),
                 Tag(<<"G","P","S"," ","G","P","S","A","l","t","i","t","u",
                       "d","e">>, IfdTag(<<"3","5">>, <<"[","3","5","]">>, <<Num(35 * Unit)>>)),
                 Tag(<<"E","X","I","F"," ","M","a","k","e","r","N","o","t","e">>, IfdTag(<<
                                                                                           "[",
                                                                                           "1",
                                                                                           ",",
                                                                                           " ",
                                                                                           "2",
                                                                                           "]">>, <<
                                                                                                    "[",
                                                                                                    "1",
                                                                                                    ",",
                                                                                                    " ",
                                                                                                    "2",
                                                                                                    "]">>, <<>>)),
                 Tag(<<"J","P","E","G","T","h","u","m","b","n","a","i","l">>, BytesVal(<<
                                                                                         "J",
                                                                                         "F",
                                                                                         "I",
                                                                                         "F">>)) >>,
     image |-> [ok |-> TRUE, format |-> <<"J","P","E","G">>, mode |-> <<"R",
                                                                        "G",
                                                                        "B">>,
                width |-> 4, height |-> 3, bands |-> <<"(","'","R","'",",",
                                                       " ","'","G","'",",",
                                                       " ","'","B","'",")">>,
                channels |-> 3,
                exif |-> << Tag(<<"M","a","k","e">>, TagVal("str", <<"C","a",
                                                                     "n","o",
                                                                     "n"," ">>, <<>>, <<>>)),
                            Tag(<<"O","r","i","e","n","t","a","t","i","o","n">>, TagVal("int", <<
                                                                                                 "0">>, <<>>, <<>>)),
                            Tag(<<"U","s","e","r","C","o","m","m","e","n","t">>, BytesVal(<<"NUL", " ", "NUL">>)) >>,
                unnamed |-> << <<"5","9","9","3","2">> >>,
                info |-> << Tag(<<"d","p","i">>, TagVal("str", <<"(","7","2",
                                                                 ","," ","7",
                                                                 "2",")">>, <<>>, <<>>)),
                            Tag(<<"e","x","i","f">>, BytesVal(<<"E","x","i",
                                                                "f">>)),
                            Tag(<<"i","c","c","_","p","r","o","f","i","l","e">>, BytesVal(<<
                                                                                            "a",
                                                                                            "c",
                                                                                            "s",
                                                                                            "p">>)) >>,
                icc |-> "valid"]]

\* a PNG without EXIF, with an XMP packet that is not closed
PngImage ==
    [content |-> <<"P","N","G","<","x","p","a","c","k","e","t"," ","b","e",
                   "g","i","n">>,
     tags |-> <<>>,
     image |-> [ok |-> TRUE, format |-> <<"P","N","G">>, mode |-> <<"R","G",
                                                                    "B","A">>,
                width |-> 2, height |-> 2, bands |-> <<"(","'","R","'",",",
                                                       " ","'","G","'",",",
                                                       " ","'","B","'",",",
                                                       " ","'","A","'",")">>,
                channels |-> 4, exif |-> <<>>, unnamed |-> <<>>,
                info |-> <<>>, icc |-> "none"]]

\* a file that is no image
TextFile == [content |-> <<"h","e","l","l","o">>, tags |-> <<>>, image |-> NoImage]

Photos == {JpegPhoto, PngImage, TextFile}

\* the environment e with the file holding photo, the readers of the passes in
\* failing raising, and OSINTEnhancer() succeeding or not
OnPhoto(e, photo, failing, ctor) ==
    [e EXCEPT !.content = photo.content, !.tags = photo.tags,
              !.image = photo.image, !.failing = failing, !.ctor = ctor]

\* the passes whose reader can raise on a file that opens
FailingSets == {f \in SUBSET (2..9) : Cardinality(f) <= MaxFailing}

ExtractEnvs ==
    {OnPhoto(Env(g.reverse1, g.reverse2, g.rg, g.folium, file), photo, failing, ctor) :
        g \in {NominalEnv, AllFailEnv}, file \in {"data", "empty", "missing"},
        photo \in Photos, failing \in FailingSets, ctor \in BOOLEAN}

ExtractPaths ==
    {StrPath(<<"/","p","/","I","M","G","_","1",".","C","R","2">>), StrPath(<<
                                                                             "/",
                                                                             "p",
                                                                             "/",
                                                                             "a",
                                                                             ".",
                                                                             "p",
                                                                             "n",
                                                                             "g">>), StrPath(<<
                                                                                               "/",
                                                                                               "p",
                                                                                               "/",
                                                                                               ".",
                                                                                               "h",
                                                                                               "i",
                                                                                               "d",
                                                                                               "d",
                                                                                               "e",
                                                                                               "n">>),
     FileObject}

(***************************************************************************)
(* The public entry points applied to a path                               *)
(***************************************************************************)
Init ==
    /\ pc = "start"
    /\ op = "none"
    /\ heap = <<>>
    /\ metadata = 0
    /\ image_path \in ExtractPaths
    /\ env \in ExtractEnvs
    /\ coords = NoCoords
    /\ ret = 0
    /\ raised = FALSE
    /\ args = NoneVal
    /\ out = NoneVal
    /\ disk = NoneVal
    /\ window = NoneVal

ExtractMetadata ==
    /\ pc = "start"
    /\ pc' = "done"
    /\ op' = "extract_metadata"
    /\ \E r \in {extract_metadata(image_path, env)} :
           /\ raised' = r.raised
           /\ heap' = IF r.raised THEN heap ELSE Append(heap, r.record)
           /\ ret' = IF r.raised THEN 0 ELSE Len(heap) + 1
    /\ UNCHANGED <<disk, window, metadata, image_path, env, coords, args, out>>

ExtractOsintMetadata ==
    /\ pc = "start"
    /\ pc' = "done"
    /\ op' = "extract_osint_metadata"
    /\ \E r \in {extract_osint_metadata(heap, image_path, env)} :
           /\ raised' = r.raised
           /\ heap' = r.heap
           /\ ret' = r.ret
    /\ metadata' = Len(heap) + 1
    /\ UNCHANGED <<disk, window, image_path, env, coords, args, out>>

Next == ExtractMetadata \/ ExtractOsintMetadata

Spec == Init /\ [][Next]_vars

(***************************************************************************)
(* The value helpers of UltraMetadataExtractor applied to arguments        *)
(***************************************************************************)
\* what float() makes of an element of a GPS tag: 0, 40, 26.5 and 46.8, a
\* nan, and an element that float() rejects
GpsElements ==
    {Num(0), Num(40 * Unit), Num(26 * Unit + Unit \div 2),
     Num(46 * Unit + 4 * (Unit \div 5)), NaN, FloatError}

\* the sequences given to _convert_gps_coord
GpsValues == UNION {[1..n -> GpsElements] : n \in 0..MaxValues}

\* whole degrees and minutes, and seconds in thousandths, of a position
DmsDegreesIn == {0, 1, 40, 179}
DmsMinutesIn == {0, 1, 26, 59}
DmsSecondsIn == {0, 5, 46800, 59994, 59995, 59999}

\* the byte strings given to _process_exif_value
RECURSIVE BytesUpTo(_)
BytesUpTo(n) ==
    IF n = 0 THEN {<<>>}
    ELSE LET shorter == BytesUpTo(n - 1)
         IN  shorter \cup {Append(b, c) : b \in shorter, c \in {"NUL", " ", "a", "xFF"}}

\* the values given to _process_exif_value
ExifValues ==
    {BytesVal(b) : b \in BytesUpTo(MaxBytes)}
    \cup {TagVal("none", <<"N","o","n","e">>, <<>>, <<>>),
          TagVal("str", <<" ","C","a","n","o","n"," ">>, <<>>, <<>>),
          TagVal("str", <<" "," ">>, <<>>, <<>>),
          TagVal("int", <<"0">>, <<>>, <<>>),
          TagVal("list", <<"[","]">>, <<>>, <<>>),
          TagVal("list", <<"[","1",".","5",","," ","2",".","0","]">>, <<>>, <<Num(Unit + Unit \div 2), Num(2 * Unit)>>),
          IfdTag(<<"[","1","2",","," ","3","0",","," ","0","]">>, <<"[","1",
                                                                    "2",",",
                                                                    " ","3",
                                                                    "0",",",
                                                                    " ","0",
                                                                    "]">>, <<>>)}

InitValues ==
    /\ pc = "start"
    /\ op = "none"
    /\ heap = <<>>
    /\ metadata = 0
    /\ image_path = StrPath(<<"/","p","/","a",".","p","n","g">>)
    /\ env = NominalEnv
    /\ coords = NoCoords
    /\ ret = 0
    /\ raised = FALSE
    /\ args = NoneVal
    /\ out = NoneVal
    /\ disk = NoneVal
    /\ window = NoneVal

\* _convert_gps_coord(values)
ConvertGpsCoord ==
    /\ pc = "start"
    /\ pc' = "done"
    /\ op' = "_convert_gps_coord"
    /\ \E values \in GpsValues :
          /\ args' = [values |-> values]
          /\ out' = convert_gps_coord(values)
    /\ UNCHANGED <<disk, window, heap, metadata, image_path, env, coords, ret, raised>>

\* _decimal_to_dms(_convert_gps_coord((d, m, s)), is_lat), the seconds s
\* given in thousandths, under each rounding of the float operations
DmsRoundTrip ==
    /\ pc = "start"
    /\ pc' = "done"
    /\ op' = "_decimal_to_dms"
    /\ \E d \in DmsDegreesIn, m \in DmsMinutesIn, s \in DmsSecondsIn,
          is_lat \in BOOLEAN, r \in {x \in Roundings : ~x.fix} :
          /\ args' = [d |-> d, m |-> m, s |-> s, is_lat |-> is_lat, r |-> r]
          /\ out' = decimal_to_dms(
                        convert_gps_coord(<<Num(d * Unit), Num(m * Unit),
                                            Num(s * (Unit \div 1000))>>),
                        is_lat, r)
    /\ UNCHANGED <<disk, window, heap, metadata, image_path, env, coords, ret, raised>>

\* _process_exif_value(value)
ProcessExifValue ==
    /\ pc = "start"
    /\ pc' = "done"
    /\ op' = "_process_exif_value"
    /\ \E value \in ExifValues :
          /\ args' = [value |-> value]
          /\ out' = process_exif_value(value)
    /\ UNCHANGED <<disk, window, heap, metadata, image_path, env, coords, ret, raised>>

\* n bytes of padding
Padding(n) == [i \in 1..n |-> "p"]

\* the contents of the files given to _xmp_iptc_data: an opening marker or
\* none, a closing marker or none, bytes before, between and after them, one
\* of them not UTF-8; and blocks without closing marker that end before and
\* after the cap
XmpFiles ==
    {before \o opening \o body \o closing \o after :
        before \in {<<>>, <<"8","B","I","M">>},
        opening \in {<<>>, <<"<","x",":","x","m","p","m","e","t","a">>, <<"<",
                                                                          "x",
                                                                          "p",
                                                                          "a",
                                                                          "c",
                                                                          "k",
                                                                          "e",
                                                                          "t">>},
        body \in {<<>>, <<"a", "xFF">>},
        closing \in {<<>>, <<"<","/","x",":","x","m","p","m","e","t","a",">">>, <<
                                                                                  "<",
                                                                                  "/",
                                                                                  "x",
                                                                                  "p",
                                                                                  "a",
                                                                                  "c",
                                                                                  "k",
                                                                                  "e",
                                                                                  "t",
                                                                                  ">">>},
        after \in {<<>>, <<"Z">>, <<"Z","Z","Z">>}}
    \cup {<<"a","b">> \o opening \o Padding(n) :
             opening \in {<<"<","x",":","x","m","p","m","e","t","a">>, <<"<",
                                                                         "x",
                                                                         "p",
                                                                         "a",
                                                                         "c",
                                                                         "k",
                                                                         "e",
                                                                         "t">>},
             n \in {XmpCap - 12, XmpCap + 3}}

\* _xmp_iptc_data(image_path), for a file that opens
XmpIptcData ==
    /\ pc = "start"
    /\ pc' = "done"
    /\ op' = "_xmp_iptc_data"
    /\ \E raw \in XmpFiles :
          /\ args' = [raw |-> raw]
          /\ out' = xmp_iptc_data(image_path,
                                  [env EXCEPT !.file = "data", !.content = raw])
    /\ UNCHANGED <<disk, window, heap, metadata, image_path, env, coords, ret, raised>>

NextValues == ConvertGpsCoord \/ DmsRoundTrip \/ ProcessExifValue \/ XmpIptcData

SpecValues == InitValues /\ [][NextValues]_vars

(***************************************************************************)
(* The detailed GPS pass applied to the GPS tags of a file                 *)
(***************************************************************************)
\* the latitude tags of a file: 40 26' 46.8", 0 1' 0", and one whose
\* elements float() rejects
LatitudeTags ==
    {IfdTag(<<"[","4","0",","," ","2","6",","," ","2","3","4","/","5","]">>, <<
                                                                               "[",
                                                                               "4",
                                                                               "0",
                                                                               ",",
                                                                               " ",
                                                                               "2",
                                                                               "6",
                                                                               ",",
                                                                               " ",
                                                                               "2",
                                                                               "3",
                                                                               "4",
                                                                               "/",
                                                                               "5",
                                                                               "]">>,
            <<Num(40 * Unit), Num(26 * Unit), Num(46 * Unit + 4 * (Unit \div 5))>>),
     IfdTag(<<"[","0",","," ","1",","," ","0","]">>, <<"[","0",","," ","1",
                                                       ","," ","0","]">>, <<Num(0), Num(Unit), Num(0)>>),
     IfdTag(<<"[","0","/","0",","," ","0",","," ","0","]">>, <<"[","0","/",
                                                               "0",","," ",
                                                               "0",","," ",
                                                               "0","]">>, <<FloatError, Num(0), Num(0)>>)}

\* the longitude tags: 79 58' 56.3", and 0.045"
LongitudeTags ==
    {IfdTag(<<"[","7","9",","," ","5","8",","," ","5","6","3","/","1","0","]">>, <<
                                                                                   "[",
                                                                                   "7",
                                                                                   "9",
                                                                                   ",",
                                                                                   " ",
                                                                                   "5",
                                                                                   "8",
                                                                                   ",",
                                                                                   " ",
                                                                                   "5",
                                                                                   "6",
                                                                                   "3",
                                                                                   "/",
                                                                                   "1",
                                                                                   "0",
                                                                                   "]">>,
            <<Num(79 * Unit), Num(58 * Unit), Num(56 * Unit + 3 * (Unit \div 10))>>),
     IfdTag(<<"[","0",","," ","0",","," ","9","/","2","0","0","]">>, <<"[",
                                                                       "0",
                                                                       ",",
                                                                       " ",
                                                                       "0",
                                                                       ",",
                                                                       " ",
                                                                       "9",
                                                                       "/",
                                                                       "2",
                                                                       "0",
                                                                       "0","]">>,
            <<Num(0), Num(0), Num(45 * (Unit \div 1000))>>)}

\* a reference tag, or <<>> when the file has none
RefTag(name, refs) ==
    {<<>>} \cup {<< Tag(name, IfdTag(r, r, <<>>)) >> : r \in refs}

\* the tags of the files the pass is applied to: a make, the two coordinates
\* and their references
GpsTagSets ==
    {<< Tag(<<"I","m","a","g","e"," ","M","a","k","e">>, IfdTag(<<"C","a","n",
                                                                  "o","n">>, <<
                                                                               "C",
                                                                               "a",
                                                                               "n",
                                                                               "o",
                                                                               "n">>, <<>>)) >>
     \o latRef \o << Tag(<<"G","P","S"," ","G","P","S","L","a","t","i","t",
                           "u","d","e">>, lat) >>
     \o lonRef \o << Tag(<<"G","P","S"," ","G","P","S","L","o","n","g","i",
                           "t","u","d","e">>, lon) >> :
        lat \in LatitudeTags, lon \in LongitudeTags,
        latRef \in RefTag(<<"G","P","S"," ","G","P","S","L","a","t","i","t",
                            "u","d","e","R","e","f">>, {<<"N">>, <<"S">>, <<
                                                                            "s">>}),
        lonRef \in RefTag(<<"G","P","S"," ","G","P","S","L","o","n","g","i",
                            "t","u","d","e","R","e","f">>, {<<"E">>, <<"W">>})}

InitGps ==
    /\ pc = "start"
    /\ op = "none"
    /\ heap = <<>>
    /\ metadata = 0
    /\ image_path = StrPath(<<"/","p","/","a",".","j","p","g">>)
    /\ \E tags \in GpsTagSets, rlat \in Roundings, rlon \in Roundings :
          env = [NominalEnv EXCEPT !.tags = tags,
                                   !.fp = [lat |-> rlat, lon |-> rlon]]
    /\ coords = NoCoords
    /\ ret = 0
    /\ raised = FALSE
    /\ args = NoneVal
    /\ out = NoneVal
    /\ disk = NoneVal
    /\ window = NoneVal

\* _detailed_gps(image_path)
DetailedGps ==
    /\ pc = "start"
    /\ pc' = "done"
    /\ op' = "_detailed_gps"
    /\ heap' = Append(heap, detailed_gps(image_path, env))
    /\ ret' = Len(heap) + 1
    /\ UNCHANGED <<disk, window, metadata, image_path, env, coords, raised, args, out>>

NextGps == DetailedGps

SpecGps == InitGps /\ [][NextGps]_vars


(***************************************************************************)
(* The analyses of OSINTEnhancer applied to records                        *)
(***************************************************************************)
\* the entries of the records given to _camera_osint_analysis: two makes, a
\* make without text, a key that names make and model, one that names model
\* and serial, a model, a serial and a lens
CameraPool ==
    {Entry(Key(<<"M","a","k","e">>), StrVal(<<"C","a","n","o","n">>)),
     Entry(Key(<<"M","A","K","E","R">>), StrVal(<<"N","i","k","o","n">>)),
     Entry(Key(<<"I","m","a","g","e"," ","M","a","k","e">>), StrVal(<<>>)),
     Entry(Key(<<"M","a","k","e","M","o","d","e","l">>), StrVal(<<"X","1">>)),
     Entry(Key(<<"M","o","d","e","l">>), StrVal(<<"E","O","S">>)),
     Entry(Key(<<"M","o","d","e","l","S","e","r","i","a","l">>), StrVal(<<"M",
                                                                          "7">>)),
     Entry(Key(<<"S","e","r","i","a","l">>), NumVal(<<"1","2","3">>)),
     Entry(Key(<<"L","e","n","s">>), StrVal(<<"5","0","m","m">>))}

\* the entries of seq whose index is in S, in the order of seq
RECURSIVE Pick(_, _)
Pick(seq, S) ==
    IF seq = <<>> THEN <<>>
    ELSE Pick(SubSeq(seq, 1, Len(seq) - 1), S)
         \o (IF Len(seq) \in S THEN << seq[Len(seq)] >> ELSE <<>>)

Reverse(seq) == [i \in 1..Len(seq) |-> seq[Len(seq) + 1 - i]]

\* the entries of the records given to _time_analysis: seven dated
\* timestamps (one an int, one under a key that names a time zone), a date
\* of another century and a year under a key that names no time
TimePool ==
    << Entry(Key(<<"D","a","t","e","T","i","m","e">>), StrVal(<<"2","0","2",
                                                                "1",":","0",
                                                                "5",":","0",
                                                                "1">>)),
       Entry(Key(<<"D","a","t","e">>), StrVal(<<"2","0","1","9">>)),
       Entry(Key(<<"M","o","d","i","f","y","D","a","t","e">>), StrVal(<<"1",
                                                                        "9",
                                                                        "9",
                                                                        "9">>)),
       Entry(Key(<<"t","i","m","e">>), StrVal(<<"2","0","2","0">>)),
       Entry(Key(<<"T","i","m","e","z","o","n","e">>), StrVal(<<"+","2","0",
                                                                "1","0">>)),
       Entry(Key(<<"Y","e","a","r">>), StrVal(<<"2","0","2","2">>)),
       Entry(Key(<<"G","P","S","D","a","t","e">>), StrVal(<<"2","0","2","3">>)),
       Entry(Key(<<"F","I","L","E","T","I","M","E">>), NumVal(<<"1","2","0",
                                                                "1","5">>)),
       Entry(Key(<<"T","i","m","e","S","t","a","m","p">>), StrVal(<<"2","0",
                                                                    "2","4">>)) >>

\* the records given to _time_analysis: the entries of TimePool kept or
\* dropped, in its order or the reverse
TimeRecords ==
    UNION {{Pick(TimePool, S), Reverse(Pick(TimePool, S))} :
              S \in SUBSET (1..Len(TimePool))}

InitAnalyses ==
    /\ pc = "start"
    /\ op = "none"
    /\ heap = <<>>
    /\ metadata = 0
    /\ image_path = StrPath(<<"/","p","/","a",".","j","p","g">>)
    /\ env = NominalEnv
    /\ coords = NoCoords
    /\ ret = 0
    /\ raised = FALSE
    /\ args = NoneVal
    /\ out = NoneVal
    /\ disk = NoneVal
    /\ window = NoneVal

\* _camera_osint_analysis(metadata)
CameraOsintAnalysis ==
    /\ pc = "start"
    /\ pc' = "done"
    /\ op' = "_camera_osint_analysis"
    /\ \E md \in RecordsOver(CameraPool, MaxLen) :
          /\ args' = [metadata |-> md]
          /\ out' = camera_osint_analysis(md)
    /\ UNCHANGED <<disk, window, heap, metadata, image_path, env, coords, ret, raised>>

\* _time_analysis(metadata)
TimeAnalysis ==
    /\ pc = "start"
    /\ pc' = "done"
    /\ op' = "_time_analysis"
    /\ \E md \in TimeRecords :
          /\ args' = [metadata |-> md]
          /\ out' = time_analysis(md)
    /\ UNCHANGED <<disk, window, heap, metadata, image_path, env, coords, ret, raised>>

NextAnalyses == CameraOsintAnalysis \/ TimeAnalysis

SpecAnalyses == InitAnalyses /\ [][NextAnalyses]_vars


(***************************************************************************)
(* MetadataTree.show_metadata: the record grouped by category              *)
(***************************************************************************)
\* the keys of the dict categories, in its order
CategoryNames ==
    << "File Information", "Camera & Lens", "Capture Settings",
       "GPS & Location", "Date & Time", "Image Properties",
       "Color & Profiles", "EXIF Data", "RAW Information",
       "OSINT Intelligence", "Other Metadata" >>

\* any(x in key_lower for x in markers)
AnyIn(markers, key_lower) == \E x \in markers : Contains(x, key_lower)

\* a category that is tried before the others
CategoryOsintFirst(key_lower) ==
    IF Contains(<<"o","s","i","n","t">>, key_lower) THEN "OSINT Intelligence"
    ELSE "Other Metadata"

\* the if/elif chain of the loop: the category of a lower-cased key
CategoryOf(key_lower) ==
    IF AnyIn({<<"f","i","l","e","_">>, <<"n","a","m","e">>, <<"s","i","z","e">>, <<
                                                                                   "p",
                                                                                   "a",
                                                                                   "t",
                                                                                   "h">>, <<
                                                                                            "e",
                                                                                            "x",
                                                                                            "t",
                                                                                            "e",
                                                                                            "n",
                                                                                            "s",
                                                                                            "i",
                                                                                            "o",
                                                                                            "n">>}, key_lower)
    THEN "File Information"
    ELSE IF AnyIn({<<"m","a","k","e">>, <<"m","o","d","e","l">>, <<"l","e",
                                                                   "n","s">>, <<
                                                                                "s",
                                                                                "e",
                                                                                "r",
                                                                                "i",
                                                                                "a",
                                                                                "l">>, <<
                                                                                         "c",
                                                                                         "a",
                                                                                         "m",
                                                                                         "e",
                                                                                         "r",
                                                                                         "a">>,
                   <<"m","a","n","u","f","a","c","t","u","r","e","r">>}, key_lower)
    THEN "Camera & Lens"
    ELSE IF AnyIn({<<"e","x","p","o","s","u","r","e">>, <<"a","p","e","r","t",
                                                          "u","r","e">>, <<
                                                                           "i",
                                                                           "s",
                                                                           "o">>, <<
                                                                                    "f",
                                                                                    "o",
                                                                                    "c",
                                                                                    "a",
                                                                                    "l">>, <<
                                                                                             "s",
                                                                                             "h",
                                                                                             "u",
                                                                                             "t",
                                                                                             "t",
                                                                                             "e",
                                                                                             "r">>,
                   <<"w","h","i","t","e">>, <<"f","l","a","s","h">>, <<"m",
                                                                       "e",
                                                                       "t",
                                                                       "e",
                                                                       "r",
                                                                       "i",
                                                                       "n","g">>}, key_lower)
    THEN "Capture Settings"
    ELSE IF Contains(<<"g","p","s">>, key_lower)
    THEN "GPS & Location"
    ELSE IF AnyIn({<<"d","a","t","e">>, <<"t","i","m","e">>}, key_lower)
    THEN "Date & Time"
    ELSE IF AnyIn({<<"w","i","d","t","h">>, <<"h","e","i","g","h","t">>, <<
                                                                           "m",
                                                                           "o",
                                                                           "d",
                                                                           "e">>, <<
                                                                                    "f",
                                                                                    "o",
                                                                                    "r",
                                                                                    "m",
                                                                                    "a",
                                                                                    "t">>, <<
                                                                                             "s",
                                                                                             "i",
                                                                                             "z",
                                                                                             "e">>,
                   <<"t","e","c","h","n","i","c","a","l">>, <<"i","m","a","g",
                                                              "e","_">>}, key_lower)
    THEN "Image Properties"
    ELSE IF AnyIn({<<"c","o","l","o","r">>, <<"i","c","c">>, <<"p","r","o",
                                                               "f","i","l","e">>}, key_lower)
    THEN "Color & Profiles"
    ELSE IF Contains(<<"r","a","w">>, key_lower)
    THEN "RAW Information"
    ELSE IF Contains(<<"o","s","i","n","t">>, key_lower)
    THEN "OSINT Intelligence"
    ELSE IF Contains(<<"e","x","i","f">>, key_lower)
    THEN "EXIF Data"
    ELSE "Other Metadata"

\* one iteration of the grouping loop; key.lower() raises for a key that is
\* not a str
GroupStep(st, e) ==
    IF st.raised THEN st
    ELSE IF ~e.k.str THEN [st EXCEPT !.raised = TRUE]
    ELSE [st EXCEPT !.categories[CategoryOf(Lower(e.k.s))] =
                        SetItem(@, e.k, e.v)]

\* the grouping loop: the iterations lo..hi in order, taken by halves, until
\* an exception leaves the loop
RECURSIVE GroupLoop(_, _, _, _)
GroupLoop(md, lo, hi, st) ==
    IF lo > hi \/ st.raised THEN st
    ELSE IF lo = hi THEN GroupStep(st, md[lo])
    ELSE LET mid == (lo + hi) \div 2
         IN  GroupLoop(md, mid + 1, hi, GroupLoop(md, lo, mid, st))

\* the top-level item of a category and its children, one per key
CategoryItem(name, items) ==
    [text |-> <<name, NatChars(Len(items))>>,
     children |-> [i \in 1..Len(items) |-> <<items[i].k.s, Str(items[i].v)>>]]

\* the items of the categories named in names that have a key, in that order
RECURSIVE TreeItems(_, _)
TreeItems(categories, names) ==
    IF names = <<>> THEN <<>>
    ELSE (IF categories[Head(names)] # <<>>
          THEN << CategoryItem(Head(names), categories[Head(names)]) >>
          ELSE <<>>)
         \o TreeItems(categories, Tail(names))

\* show_metadata(metadata): the dict categories and the items of the tree;
\* raised: an exception left the method after clear()
show_metadata(md) ==
    IF md = <<>>
    THEN [raised |-> FALSE, categories |-> <<>>,
          tree |-> << [text |-> <<"No metadata", "Image contains no metadata">>,
                       children |-> <<>>] >>]
    ELSE LET st == GroupLoop(md, 1, Len(md),
                       [raised |-> FALSE,
                        categories |-> [n \in {CategoryNames[i] : i \in 1..Len(CategoryNames)}
                                           |-> <<>>]])
         IN  IF st.raised
             THEN [raised |-> TRUE, categories |-> st.categories, tree |-> <<>>]
             ELSE [raised |-> FALSE, categories |-> st.categories,
                   tree |-> TreeItems(st.categories, CategoryNames)]

\* the entries of the records shown: keys that name one category, keys that
\* name two, a key that names none and a key that is an int
TreePool ==
    << Entry(Key(<<"I","m","a","g","e","S","i","z","e">>), StrVal(<<"1","x",
                                                                    "1">>)),
       Entry(Key(<<"I","m","a","g","e"," ","M","a","k","e">>), StrVal(<<"C",
                                                                        "a",
                                                                        "n",
                                                                        "o",
                                                                        "n">>)),
       Entry(Key(<<"E","x","p","o","s","u","r","e","T","i","m","e">>), StrVal(<<
                                                                                "1",
                                                                                "/",
                                                                                "6",
                                                                                "0">>)),
       Entry(Key(<<"G","P","S","_","D","a","t","e">>), StrVal(<<"2","0","2",
                                                                "1">>)),
       Entry(Key(<<"O","S","I","N","T","_","T","i","m","e","_","1">>), StrVal(<<
                                                                                "a",
                                                                                ":",
                                                                                " ",
                                                                                "b">>)),
       Entry(Key(<<"I","m","a","g","e","_","W","i","d","t","h">>), NumVal(<<
                                                                            "1">>)),
       Entry(Key(<<"I","C","C","_","P","r","o","f","i","l","e">>), StrVal(<<
                                                                            "Y",
                                                                            "e",
                                                                            "s">>)),
       Entry(Key(<<"R","A","W","_","F","o","r","m","a","t">>), StrVal(<<"c",
                                                                        "r",
                                                                        "2">>)),
       Entry(Key(<<"R","A","W","_","T","y","p","e">>), StrVal(<<"x">>)),
       Entry(Key(<<"O","S","I","N","T","_","H","a","s","h">>), StrVal(<<"d",
                                                                        "4">>)),
       Entry(Key(<<"E","X","I","F","_","T","a","g">>), StrVal(<<>>)),
       Entry(Key(<<"C","o","m","m","e","n","t">>), StrVal(<<"h","i">>)),
       Entry(IntKey(<<"1">>), StrVal(<<"x">>)) >>

\* the records shown: the entries of TreePool kept or dropped
TreeRecords == {Pick(TreePool, S) : S \in SUBSET (1..Len(TreePool))}

InitTree ==
    /\ pc = "start"
    /\ op = "none"
    /\ heap = <<>>
    /\ metadata = 0
    /\ image_path = StrPath(<<"/","p","/","a",".","j","p","g">>)
    /\ env = NominalEnv
    /\ coords = NoCoords
    /\ ret = 0
    /\ raised = FALSE
    /\ args = NoneVal
    /\ out = NoneVal
    /\ disk = NoneVal
    /\ window = NoneVal

\* show_metadata(metadata)
ShowMetadata ==
    /\ pc = "start"
    /\ pc' = "done"
    /\ op' = "show_metadata"
    /\ \E md \in TreeRecords :
          /\ args' = [metadata |-> md]
          /\ \E r \in {show_metadata(md)} :
                /\ out' = r
                /\ raised' = r.raised
    /\ UNCHANGED <<disk, window, heap, metadata, image_path, env, coords, ret>>

NextTree == ShowMetadata

SpecTree == InitTree /\ [][NextTree]_vars


(***************************************************************************)
(* The command line (src/cli.py): find_images, write_json and main         *)
(***************************************************************************)
\* A disk is [dirs |-> the directories, files |-> a function from the path
\* of each regular file to its content]; a path is a str.
IsFile(d, p) == p \in DOMAIN d.files
IsDir(d, p) == p \in d.dirs

\* the content of an image file, and of a JSON document
ImageContent == [json |-> FALSE, payload |-> NoneVal]
Document(payload) == [json |-> TRUE, payload |-> payload]

\* os.path.dirname(p)
Dirname(p) ==
    LET slashes == {i \in 1..Len(p) : p[i] = "/"}
    IN  IF slashes = {} THEN <<>>
        ELSE SubSeq(p, 1, (CHOOSE i \in slashes : \A j \in slashes : j <= i) - 1)

\* os.path.join(a, b), for a relative b
Join(a, b) == IF a = <<>> THEN b ELSE a \o <<"/">> \o b

\* os.path.abspath(p), the working directory being /w
Abspath(p) == IF p # <<>> /\ p[1] = "/" THEN p ELSE Join(<<"/","w">>, p)

\* the allow-list of find_images
exts ==
    {<<".","j","p","g">>, <<".","j","p","e","g">>, <<".","p","n","g">>, <<".",
                                                                          "t",
                                                                          "i",
                                                                          "f",
                                                                          "f">>, <<
                                                                                   ".",
                                                                                   "t",
                                                                                   "i",
                                                                                   "f">>, <<
                                                                                            ".",
                                                                                            "w",
                                                                                            "e",
                                                                                            "b",
                                                                                            "p">>, <<
                                                                                                     ".",
                                                                                                     "b",
                                                                                                     "m",
                                                                                                     "p">>,
     <<".","c","r","2">>, <<".","n","e","f">>, <<".","a","r","w">>, <<".","o",
                                                                      "r","f">>, <<
                                                                                   ".",
                                                                                   "r",
                                                                                   "w",
                                                                                   "2">>, <<
                                                                                            ".",
                                                                                            "d",
                                                                                            "n",
                                                                                            "g">>}

\* the sequences that enumerate the set S, each element once: the orders in
\* which os.listdir and os.walk may return the names of a directory
RECURSIVE Orders(_)
Orders(S) ==
    IF S = {} THEN {<<>>}
    ELSE UNION {{<<x>> \o t : t \in Orders(S \ {x})} : x \in S}

\* the regular files of the directory top whose extension is in the allow-list
Allowed(d, top) ==
    {p \in DOMAIN d.files : Dirname(p) = top /\ Lower(Splitext(p)) \in exts}

\* the sub-directories of the directory top
SubDirs(d, top) == {p \in d.dirs : Dirname(p) = top}

\* lines 19-22: the paths yielded for os.walk(top), in each order the walk
\* may take: the files of top, then each sub-directory in turn
RECURSIVE Walk(_, _)
RECURSIVE WalkEach(_, _)
Walk(d, top) ==
    {here \o below : here \in Orders(Allowed(d, top)),
                     below \in WalkEach(d, SubDirs(d, top))}
WalkEach(d, tops) ==
    IF tops = {} THEN {<<>>}
    ELSE UNION {{first \o rest : first \in Walk(d, x),
                                 rest \in WalkEach(d, tops \ {x})} : x \in tops}

\* an enumerator that yields every file of a directory
find_images_unfiltered(d, root, recursive) ==
    IF IsFile(d, root) THEN {<<root>>}
    ELSE IF ~IsDir(d, root) THEN {<<>>}
    ELSE Orders({p \in DOMAIN d.files : Dirname(p) = root})

\* find_images(root, recursive): the sequences of paths the generator may
\* yield
find_images(d, root, recursive) ==
    IF IsFile(d, root) THEN {<<root>>}
    ELSE IF ~IsDir(d, root) THEN {<<>>}
    ELSE IF recursive THEN Walk(d, root)
    ELSE Orders(Allowed(d, root))

\* os.makedirs(out_dir, exist_ok=True) raises: out_dir is a regular file
MakedirsRaises(d, out_dir) == IsFile(d, out_dir)

\* the directories after os.makedirs(out_dir, exist_ok=True)
RECURSIVE Makedirs(_, _)
Makedirs(dirs, out_dir) ==
    IF out_dir = <<>> \/ out_dir \in dirs THEN dirs
    ELSE Makedirs(dirs, Dirname(out_dir)) \cup {out_dir}

\* lines 31-38: the path write_json writes to
OutPath(src_path, out_dir) ==
    LET base == Basename(src_path)
        name == SubSeq(base, 1, Len(base) - Len(Splitext(base)))
        out_name == name \o <<"_","m","e","t","a","d","a","t","a">> \o <<".",
                                                                         "j",
                                                                         "s",
                                                                         "o",
                                                                         "n">>
    IN  IF out_dir # <<>> THEN Join(out_dir, out_name)
        ELSE Join(Dirname(src_path), out_name)

\* write_json(metadata, src_path, out_dir): the disk afterwards and the
\* returned path, or raised when makedirs or open raises
write_json(d, data, src_path, out_dir) ==
    IF out_dir # <<>> /\ MakedirsRaises(d, out_dir)
    THEN [raised |-> TRUE, disk |-> d, out_path |-> <<>>]
    ELSE LET dirs == IF out_dir # <<>> THEN Makedirs(d.dirs, out_dir) ELSE d.dirs
             out_path == OutPath(src_path, out_dir)
             payload == [source_file |-> Abspath(src_path),
                         extracted_at |-> "now",
                         metadata |-> data]
         IN  IF out_path \in dirs
             THEN [raised |-> TRUE, disk |-> [d EXCEPT !.dirs = dirs],
                   out_path |-> <<>>]
             ELSE [raised |-> FALSE,
                   disk |-> [dirs |-> dirs,
                             files |-> (out_path :> Document(payload)) @@ d.files],
                   out_path |-> out_path]

\* the record extracted from img: only the file it was read from and the
\* method that read it are kept
Extracted(img, no_osint) ==
    [of |-> img,
     by |-> IF no_osint THEN "extract_metadata" ELSE "extract_osint_metadata"]

\* lines 64-77: one iteration of the loop of main; saved and failed are the
\* lines printed
MainStep(st, img, a) ==
    IF st.stopped THEN st
    ELSE IF a.limit # 0 /\ st.count >= a.limit THEN [st EXCEPT !.stopped = TRUE]
    ELSE LET w == write_json(st.disk, Extracted(img, a.no_osint), img, a.out)
         IN  IF w.raised
             THEN [st EXCEPT !.disk = w.disk, !.failed = Append(@, img)]
             ELSE [st EXCEPT !.disk = w.disk,
                             !.saved = Append(@, <<img, w.out_path>>),
                             !.count = @ + 1]

RECURSIVE MainLoop(_, _, _)
MainLoop(st, imgs, a) ==
    IF imgs = <<>> THEN st
    ELSE MainLoop(MainStep(st, Head(imgs), a), Tail(imgs), a)

\* main(), for the arguments a and the images in the order the generator
\* yields them
main(d, a, imgs) ==
    MainLoop([disk |-> d, count |-> 0, saved |-> <<>>, failed |-> <<>>,
              stopped |-> FALSE], imgs, a)

\* the image files a disk may hold, under the directories d and d/s
ImageFiles ==
    {<<"d","/","a",".","j","p","g">>, <<"d","/","a",".","P","N","G">>, <<"d",
                                                                         "/",
                                                                         "b",
                                                                         ".",
                                                                         "t",
                                                                         "x",
                                                                         "t">>, <<
                                                                                  "d",
                                                                                  "/",
                                                                                  "s",
                                                                                  "/",
                                                                                  "a",
                                                                                  ".",
                                                                                  "j",
                                                                                  "p",
                                                                                  "g">>, <<
                                                                                           "d",
                                                                                           "/",
                                                                                           "s",
                                                                                           "/",
                                                                                           "n",
                                                                                           ".",
                                                                                           "n",
                                                                                           "e",
                                                                                           "f">>}

\* the roots given to find_images and main: directories, files, and a path
\* that does not exist
Roots == {<<"d">>, <<"d","/","s">>, <<"d","/","a",".","j","p","g">>, <<"d",
                                                                       "/",
                                                                       "b",
                                                                       ".",
                                                                       "t",
                                                                       "x","t">>, <<
                                                                                    "x">>}

InitCli ==
    /\ pc = "start"
    /\ op = "none"
    /\ heap = <<>>
    /\ metadata = 0
    /\ image_path = StrPath(<<"/","p","/","a",".","j","p","g">>)
    /\ env = NominalEnv
    /\ coords = NoCoords
    /\ ret = 0
    /\ raised = FALSE
    /\ args = NoneVal
    /\ out = NoneVal
    /\ \E present \in SUBSET ImageFiles :
          disk = [dirs |-> {<<"d">>, <<"d","/","s">>},
                  files |-> [p \in present |-> ImageContent]]
    /\ window = NoneVal

\* list(find_images(root, recursive))
FindImages ==
    /\ pc = "start"
    /\ pc' = "done"
    /\ op' = "find_images"
    /\ \E root \in Roots, recursive \in BOOLEAN :
          /\ args' = [root |-> root, recursive |-> recursive]
          /\ \E imgs \in find_images(disk, root, recursive) : out' = imgs
    /\ UNCHANGED <<heap, metadata, image_path, env, coords, ret, raised, disk,
                   window>>

\* main(), with the arguments parsed from the command line
Main ==
    /\ pc = "start"
    /\ pc' = "done"
    /\ op' = "main"
    /\ \E path \in Roots, recursive \in BOOLEAN, no_osint \in BOOLEAN,
          out_dir \in {<<>>, <<"o">>, <<"d","/","b",".","t","x","t">>}, limit \in 0..MaxLimit :
          \E a \in {[path |-> path, recursive |-> recursive,
                     no_osint |-> no_osint, out |-> out_dir, limit |-> limit]} :
             /\ args' = a
             /\ \E imgs \in find_images(disk, path, recursive) :
                   \E r \in {main(disk, a, imgs)} :
                      /\ disk' = r.disk
                      /\ out' = [count |-> r.count, saved |-> r.saved,
                                 failed |-> r.failed]
    /\ UNCHANGED <<heap, metadata, image_path, env, coords, ret, raised, window>>

NextCli == FindImages \/ Main

SpecCli == InitCli /\ [][NextCli]_vars


(***************************************************************************)
(* The window (src/gui.py): ExtractionWorker and MainWindow                *)
(***************************************************************************)
\* The window is [busy, thread, threads, queue, status, tree,
\* current_metadata, current_file].  threads holds every QThread made by
\* _process_image, thread is the place of self._thread in it (0 before the
\* first), queue holds the slot calls posted to the event loop of the main
\* thread, in order.

\* a signal emitted with an argument
Emitted(signal, arg) == [signal |-> signal, arg |-> arg]

\* what extractor.extract_osint_metadata(path) does in a worker: it returns
\* a record or raises
Returns(record) == [kind |-> "record", record |-> record, message |-> <<>>]
RaisesWith(message) == [kind |-> "raise", record |-> <<>>, message |-> message]

\* a run that signals the error and then signals completion all the same
run_both(outcome) ==
    IF outcome.kind = "record"
    THEN << Emitted("finished", outcome.record) >>
    ELSE << Emitted("error", outcome.message),
            Emitted("finished", outcome.record) >>

\* ExtractionWorker.run: the signals it emits, in order
run(outcome) ==
    IF outcome.kind = "record"
    THEN << Emitted("finished", outcome.record) >>
    ELSE << Emitted("error", outcome.message) >>

\* a slot call posted to the main thread for the thread t
Call(slot, t, arg) == [slot |-> slot, t |-> t, arg |-> arg]

\* the slots connected to the signal, in the order of the connect calls of
\* _process_image (lines 397-402), for the arguments of one emission
\* (worker.deleteLater runs in the thread of the worker and is not posted)
Connected(signal, t, arg) ==
    IF signal = "finished"
    THEN << Call("_on_extraction_finished", t, arg), Call("quit", t, arg) >>
    ELSE << Call("_on_extraction_error", t, arg) >>

\* the slot calls posted for the emissions of a run, in order
RECURSIVE Posted(_, _)
Posted(emitted, t) ==
    IF emitted = <<>> THEN <<>>
    ELSE Connected(Head(emitted).signal, t, Head(emitted).arg)
         \o Posted(Tail(emitted), t)

\* a QThread that was started, with its worker
NewThread(path) ==
    [path |-> path, worker |-> "waiting", emitted |-> <<>>, quit |-> FALSE,
     state |-> "running", replaced |-> "no"]

\* _set_ui_busy(busy)
set_ui_busy(w, busy) == [w EXCEPT !.busy = busy]

\* _process_image(path): the thread that self._thread named is let go of,
\* running or not
process_image(w, path) ==
    LET old == w.thread
        threads == IF old = 0 THEN w.threads
                   ELSE [w.threads EXCEPT ![old].replaced =
                            IF w.threads[old].state = "running"
                            THEN IF w.threads[old].quit THEN "quitting"
                                 ELSE "running"
                            ELSE "finished"]
    IN  [set_ui_busy(w, TRUE) EXCEPT
            !.status = <<"D","e","e","p"," ","O","S","I","N","T"," ","a","n",
                         "a","l","y","s","i","s"," ","i","n"," ","p","r","o",
                         "g","r","e","s","s",".",".",".">>,
            !.threads = Append(threads, NewThread(path)),
            !.thread = Len(w.threads) + 1]

\* _on_extraction_error(msg), the message box closed
on_extraction_error(w, msg) ==
    [set_ui_busy(w, FALSE) EXCEPT !.status = <<"E","r","r","o","r"," ","p",
                                               "r","o","c","e","s","s","i",
                                               "n","g"," ","i","m","a","g","e">>]

\* lines 429-433: the status message of a loaded record
StatusMessage(md, path) ==
    LET file_name == IF Truthy(path) THEN Basename(path.s) ELSE <<"U","n","k",
                                                                  "n","o","w",
                                                                  "n">>
        osint_count == Cardinality({i \in 1..Len(md) :
                                       Contains(<<"O","S","I","N","T","_">>, md[i].k.s)})
        gps_present == \E i \in 1..Len(md) :
                          /\ Contains(<<"G","P","S">>, md[i].k.s)
                          /\ Contains(<<"C","o","o","r","d","i","n","a","t",
                                        "e","s">>, md[i].k.s)
    IN  <<"L","o","a","d","e","d",":"," ">> \o file_name \o <<" ","|"," ","T",
                                                              "o","t","a","l",
                                                              ":"," ">> \o NatChars(Len(md))
        \o <<" ","|"," ","O","S","I","N","T",":"," ">> \o NatChars(osint_count)
        \o (IF gps_present THEN <<" ","|"," ","G","P","S"," ","L","o","c","a",
                                  "t","e","d">> ELSE <<>>)

\* _on_extraction_finished(metadata)
on_extraction_finished(w, md) ==
    LET path == GetOr(md, Key(<<"F","i","l","e","_","P","a","t","h">>), PyNone)
        shown == show_metadata(md)
    IN  IF shown.raised
        THEN [set_ui_busy(w, FALSE) EXCEPT !.tree = <<>>,
                                           !.status = <<"E","r","r","o","r",
                                                        " ","u","p","d","a",
                                                        "t","i","n","g"," ",
                                                        "U","I">>]
        ELSE [set_ui_busy(w, FALSE) EXCEPT
                 !.tree = shown.tree,
                 !.current_metadata = md,
                 !.current_file = path,
                 !.status = StatusMessage(md, path)]

\* the records extract_osint_metadata returns to a worker, and a failure
Outcomes ==
    {Returns(<< Entry(Key(<<"F","i","l","e","_","P","a","t","h">>), StrVal(<<
                                                                             "/",
                                                                             "p",
                                                                             "/",
                                                                             "a",
                                                                             ".",
                                                                             "j",
                                                                             "p",
                                                                             "g">>)),
                Entry(Key(<<"G","P","S","_","C","o","o","r","d","i","n","a",
                            "t","e","s">>), StrVal(<<"1",".","5",","," ","2",
                                                     ".","5">>)),
                Entry(Key(<<"O","S","I","N","T","_","C","o","o","r","d","i",
                            "n","a","t","e","s">>), StrVal(<<"1",".","5","0",
                                                             "0","0","0","0",
                                                             ","," ","2",".",
                                                             "5","0","0","0",
                                                             "0","0">>)) >>),
     Returns(<< Entry(Key(<<"R","A","W","_","F","i","l","e">>), StrVal(<<"N",
                                                                         "O">>)) >>),
     RaisesWith(<<"b","o","o","m">>)}

InitWindow ==
    /\ pc = "start"
    /\ op = "none"
    /\ heap = <<>>
    /\ metadata = 0
    /\ image_path = StrPath(<<"/","p","/","a",".","j","p","g">>)
    /\ env = NominalEnv
    /\ coords = NoCoords
    /\ ret = 0
    /\ raised = FALSE
    /\ args = NoneVal
    /\ out = NoneVal
    /\ disk = NoneVal
    /\ window = [busy |-> FALSE, thread |-> 0, threads |-> <<>>,
                 queue |-> <<>>,
                 status |-> <<"R","e","a","d","y"," ","-"," ","S","e","l","e",
                              "c","t"," ","i","m","a","g","e"," ","f","o","r",
                              " ","O","S","I","N","T"," ","a","n","a","l","y",
                              "s","i","s">>,
                 tree |-> <<>>, current_metadata |-> PyNone,
                 current_file |-> PyNone]

\* _open_file with a path chosen: the action is enabled only while the
\* window is not busy
ProcessImage ==
    /\ ~window.busy
    /\ Len(window.threads) < MaxThreads
    /\ op' = "_process_image"
    /\ \E path \in {<<"/","p","/","a",".","j","p","g">>, <<"/","p","/","b",
                                                           ".","p","n","g">>} :
          window' = process_image(window, path)
    /\ UNCHANGED <<pc, heap, metadata, image_path, env, coords, ret, raised,
                   args, out, disk>>

\* the started thread t runs ExtractionWorker.run; the slots connected to
\* what it emits are posted to the main thread
WorkerRun ==
    /\ op' = "run"
    /\ \E t \in 1..Len(window.threads), outcome \in Outcomes :
          /\ window.threads[t].state = "running"
          /\ window.threads[t].worker = "waiting"
          /\ \E emitted \in {run(outcome)} :
                window' = [window EXCEPT
                              !.threads[t].worker = "done",
                              !.threads[t].emitted = emitted,
                              !.queue = @ \o Posted(emitted, t)]
    /\ UNCHANGED <<pc, heap, metadata, image_path, env, coords, ret, raised,
                   args, out, disk>>

\* the event loop of the main thread runs the first posted slot call
Dispatch ==
    /\ window.queue # <<>>
    /\ op' = Head(window.queue).slot
    /\ \E call \in {Head(window.queue)} :
       \E w \in {[window EXCEPT !.queue = Tail(@)]} :
          window' = IF call.slot = "_on_extraction_finished"
                    THEN on_extraction_finished(w, call.arg)
                    ELSE IF call.slot = "_on_extraction_error"
                    THEN on_extraction_error(w, call.arg)
                    ELSE [w EXCEPT !.threads[call.t].quit = TRUE]
    /\ UNCHANGED <<pc, heap, metadata, image_path, env, coords, ret, raised,
                   args, out, disk>>

\* a thread that was told to quit leaves its event loop and finishes
ThreadFinished ==
    /\ op' = "finished"
    /\ \E t \in 1..Len(window.threads) :
          /\ window.threads[t].state = "running"
          /\ window.threads[t].quit
          /\ window' = [window EXCEPT !.threads[t].state = "finished"]
    /\ UNCHANGED <<pc, heap, metadata, image_path, env, coords, ret, raised,
                   args, out, disk>>

NextWindow == ProcessImage \/ WorkerRun \/ Dispatch \/ ThreadFinished

SpecWindow == InitWindow /\ [][NextWindow]_vars


(***************************************************************************)
(* Properties of enhance_metadata                                          *)
(***************************************************************************)
EnhanceDone == pc = "done" /\ op = "enhance_metadata"

\* every entry of base is an entry of result
Superset(result, base) ==
    \A i \in 1..Len(base) :
        HasKey(result, base[i].k) /\ Get(result, base[i].k) = base[i].v

\* the key carries the prefix reserved for enrichment fields
Reserved(k) == k.str /\ StartsWith(k.s, <<"O","S","I","N","T","_">>)

\* C1 as stated: every key of base appears in enhance_metadata(base, path) with
\* the value it has in base, for any base record.
C1_SupersetOfAnyBase ==
    [][pc = "start" /\ op' = "enhance_metadata"
       => Superset(heap'[ret'], heap[metadata])]_vars

\* C1, amended: every key of a base record that has no key under the reserved
\* prefix OSINT_ appears in enhance_metadata(base, path) with the value it has in
\* base, whichever analyses fail.
C1_SupersetOfUnreservedBase ==
    [][pc = "start" /\ op' = "enhance_metadata"
       /\ (\A i \in 1..Len(heap[metadata]) : ~Reserved(heap[metadata][i].k))
       => Superset(heap'[ret'], heap[metadata])]_vars

\* an enhancement of a base record without reserved keys in which the camera,
\* temporal, forensic and network analyses all failed
C1_Witness ==
    /\ EnhanceDone
    /\ heap[metadata] # <<>>
    /\ \A i \in 1..Len(heap[metadata]) : ~Reserved(heap[metadata][i].k)
    /\ HasKey(heap[ret], Key(<<"O","S","I","N","T","_","C","a","m","e","r",
                               "a","_","E","r","r","o","r">>))
    /\ HasKey(heap[ret], Key(<<"O","S","I","N","T","_","T","i","m","e","_",
                               "E","r","r","o","r">>))
    /\ HasKey(heap[ret], Key(<<"O","S","I","N","T","_","F","o","r","e","n",
                               "s","i","c","_","E","r","r","o","r">>))
    /\ HasKey(heap[ret], Key(<<"O","S","I","N","T","_","N","e","t","w","o",
                               "r","k","_","E","r","r","o","r">>))

\* C2: enhance_metadata leaves the caller's record as it was and returns another
\* object.
C2_BaseNotMutated ==
    [][pc = "start" /\ op' = "enhance_metadata"
       => /\ heap'[metadata] = heap[metadata]
          /\ ret' # metadata
          /\ \A r \in 1..Len(heap) : heap'[r] = heap[r]]_vars

\* an enhancement that added fields to its own copy
C2_Witness ==
    /\ EnhanceDone
    /\ ret # metadata
    /\ Len(heap[ret]) > Len(heap[metadata])

\* the inputs with which an exception reaches the guard of each analysis
GpsFailure ==
    extract_coordinates(heap[metadata]).kind = "pair" /\ env.reverse1.kind = "raise"
CameraFailure == \E i \in 1..Len(heap[metadata]) : ~heap[metadata][i].k.str
TimeFailure == \E i \in 1..Len(heap[metadata]) : ~heap[metadata][i].k.str
ForensicFailure == ~CanOpen(image_path, env)
NetworkFailure == \E i \in 1..Len(heap[metadata]) : heap[metadata][i].v.t = "obj"
MapFailure ==
    extract_coordinates(heap[metadata]).kind = "pair" /\ ~env.folium

\* the fields the six analyses return are all in the result
AnalysesPresent ==
    \A u \in { gps_osint_analysis(heap[metadata], env),
               camera_osint_analysis(heap[metadata]),
               time_analysis(heap[metadata]),
               forensic_analysis(image_path, env),
               network_analysis(heap[metadata]),
               MapField(create_osm_map(heap[metadata], env)) } :
        KeysOf(u) \subseteq KeysOf(heap[ret])

\* the five analyses that report a failure do so under their own key
FiveReport ==
    /\ GpsFailure => HasKey(heap[ret], Key(<<"O","S","I","N","T","_","G","P",
                                             "S","_","E","r","r","o","r">>))
    /\ CameraFailure => HasKey(heap[ret], Key(<<"O","S","I","N","T","_","C",
                                                "a","m","e","r","a","_","E",
                                                "r","r","o","r">>))
    /\ TimeFailure => HasKey(heap[ret], Key(<<"O","S","I","N","T","_","T","i",
                                              "m","e","_","E","r","r","o","r">>))
    /\ ForensicFailure => HasKey(heap[ret], Key(<<"O","S","I","N","T","_","F",
                                                  "o","r","e","n","s","i","c",
                                                  "_","E","r","r","o","r">>))
    /\ NetworkFailure => HasKey(heap[ret], Key(<<"O","S","I","N","T","_","N",
                                                 "e","t","w","o","r","k","_",
                                                 "E","r","r","o","r">>))

\* a key of the result that names an error of the map artifact
MapErrorField ==
    \E k \in KeysOf(heap[ret]) :
        k.str /\ Contains(<<"m","a","p">>, Lower(k.s)) /\ Contains(<<"e","r",
                                                                     "r","o",
                                                                     "r">>, Lower(k.s))

CoordDone == pc = "done" /\ op = "_extract_coordinates"

\* C8: _extract_coordinates returns without raising, either None or a pair of
\* two numbers, and a pair exactly when the search ended with both components
\* resolved.
C8_PairOrNone ==
    CoordDone =>
        /\ ~raised
        /\ coords.kind \in {"None", "pair"}
        /\ coords.kind = "pair" => IsFloat(coords.lat) /\ IsFloat(coords.lon)
        /\ coords.kind = "None" => coords = NoCoords
        /\ coords.kind = "pair"
              <=> LET st == Resolve(heap[metadata])
                  IN  ~st.raised /\ IsFloat(st.lat) /\ IsFloat(st.lon)

\* one component was resolved, the other was not, and None was returned
C8_Witness ==
    /\ CoordDone
    /\ coords = NoCoords
    /\ LET st == Resolve(heap[metadata])
       IN  ~st.raised /\ IsFloat(st.lat) /\ st.lon = NoneVal

\* the keys of md, in order, that tier 1 reads for a component and can parse
Tier1Hits(md, component) ==
    {i \in 1..Len(md) :
        /\ md[i].k.str
        /\ Contains(<<"g","p","s">>, Lower(md[i].k.s))
        /\ Contains(<<"d","e","c","i","m","a","l">>, Lower(md[i].k.s))
        /\ Contains(component, Lower(md[i].k.s))
        /\ IsFloat(FloatOf(md[i].v))}

FirstOf(hits) == CHOOSE i \in hits : \A j \in hits : i <= j

\* C9 as stated: among several keys of tier 1 whose values parse, the first in
\* record order gives the component (here for records where tier 1 resolves
\* both components, so that the pair returned is tier 1's).
C9_FirstKeyWins ==
    CoordDone =>
        LET md == heap[metadata]
            lats == Tier1Hits(md, <<"l","a","t","i","t","u","d","e">>)
            lons == Tier1Hits(md, <<"l","o","n","g","i","t","u","d","e">>)
        IN  (\A i \in 1..Len(md) : md[i].k.str) /\ lats # {} /\ lons # {}
            => coords = Pair(FloatOf(md[FirstOf(lats)].v),
                             FloatOf(md[FirstOf(lons)].v))

\* a 'coordinates' entry that does not give two numbers
Malformed(e) ==
    /\ e.k.str
    /\ Contains(<<"c","o","o","r","d","i","n","a","t","e","s">>, Lower(e.k.s))
    /\ e.v.t # "obj"
    /\ LET parts == SplitComma(Str(e.v))
       IN  \/ Len(parts) # 2
           \/ ~IsFloat(ParseFloat(Strip(parts[1])))
           \/ ~IsFloat(ParseFloat(Strip(parts[2])))

\* C10 as stated: a 'coordinates' entry that does not split into two parts, or of
\* which a part fails to parse, is ignored: the result is the result for the
\* record without that entry.
C10_MalformedIgnored ==
    CoordDone =>
        \A i \in 1..Len(heap[metadata]) :
            Malformed(heap[metadata][i])
            => coords = extract_coordinates(RemoveAt(heap[metadata], i))

(***************************************************************************)
(* Properties of extract_metadata and extract_osint_metadata               *)
(***************************************************************************)
ExtractDone == pc = "done" /\ op = "extract_metadata"
OsintDone == pc = "done" /\ op = "extract_osint_metadata"

\* the record holds a field of the file-info pass
HasFileInfo(record) ==
    \E i \in 1..Len(record) : record[i].k.str /\ StartsWith(record[i].k.s, <<
                                                                             "F",
                                                                             "i",
                                                                             "l",
                                                                             "e",
                                                                             "_">>)

\* the record is the single-entry failure record
IsErrorRecord(record) == Len(record) = 1 /\ record[1].k = Key(<<"E","r","r",
                                                                "o","r">>)

\* C3 as stated: extract_metadata returns without raising, and the record it
\* returns holds file-info fields or is the single-entry record {Error: ...}.
C3_FileInfoOrError ==
    ExtractDone =>
        /\ ~raised
        /\ ret \in 1..Len(heap)
        /\ HasFileInfo(heap[ret]) \/ IsErrorRecord(heap[ret])

\* C4: extract_osint_metadata returns a record without raising, and when the
\* construction of the enhancer raises the record is that of
\* extract_metadata(path).
C4_OsintAlwaysReturns ==
    OsintDone =>
        /\ ~raised
        /\ ret \in 1..Len(heap)
        /\ ~env.ctor => heap[ret] = extract_metadata(image_path, env).record

\* the enhancer could not be constructed and the extracted record came back
C4_Witness ==
    /\ OsintDone
    /\ ~env.ctor
    /\ ~raised
    /\ HasFileInfo(heap[ret])

\* every entry of the dict that pass m returned is in the record
PassKept(m, record) ==
    \A i \in 1..Len(PassFields(m, image_path, env)) :
        LET f == PassFields(m, image_path, env)[i]
        IN  HasKey(record, f.k) /\ Get(record, f.k) = f.v

Tier1Keys(md, component) ==
    {i \in 1..Len(md) :
        /\ md[i].k.str
        /\ Contains(<<"g","p","s">>, Lower(md[i].k.s))
        /\ Contains(<<"d","e","c","i","m","a","l">>, Lower(md[i].k.s))
        /\ Contains(component, Lower(md[i].k.s))}

\* the entries of md that tier 2 reads
Tier2Keys(md) ==
    {i \in 1..Len(md) : md[i].k.str /\ Contains(<<"c","o","o","r","d","i","n",
                                                  "a","t","e","s">>, Lower(md[i].k.s))}

\* every value that a tier reads parses as a finite number, or as two of them
NumericMatches(md) ==
    /\ \A i \in 1..Len(md) : md[i].k.str
    /\ \A i \in Tier1Keys(md, <<"l","a","t","i","t","u","d","e">>) \cup Tier1Keys(md, <<
                                                                                        "l",
                                                                                        "o",
                                                                                        "n",
                                                                                        "g",
                                                                                        "i",
                                                                                        "t",
                                                                                        "u",
                                                                                        "d",
                                                                                        "e">>) :
          FloatOf(md[i].v).kind = "num"
    /\ \A i \in Tier2Keys(md) :
          /\ md[i].v.t # "obj"
          /\ LET parts == SplitComma(Str(md[i].v))
             IN  /\ Len(parts) = 2
                 /\ ParseFloat(Strip(parts[1])).kind = "num"
                 /\ ParseFloat(Strip(parts[2])).kind = "num"

\* x is a finite float of magnitude at most bound
WithinDegrees(x, bound) ==
    IsFinite(x) /\ -(bound * Unit) <= x.v /\ x.v <= bound * Unit

\* C11 as stated: for a record whose matching values all parse as numbers, a
\* returned coordinate is a pair of finite numbers with the latitude in
\* [-90, 90] and the longitude in [-180, 180].
C11_PairInRange ==
    CoordDone /\ NumericMatches(heap[metadata]) /\ coords.kind = "pair"
    => WithinDegrees(coords.lat, 90) /\ WithinDegrees(coords.lon, 180)

\* the records that hold the entries of md in some order
Orderings(md) ==
    {[i \in 1..Len(md) |-> md[p[i]]] :
        p \in {q \in [1..Len(md) -> 1..Len(md)] :
                  \A i, j \in 1..Len(md) : q[i] = q[j] => i = j}}

\* C12 as stated: for a record with at most one GPS-decimal-latitude key and
\* at most one GPS-decimal-longitude key, _extract_coordinates returns the
\* same result whatever the order of the record's keys, several 'coordinates'
\* keys included.
C12_KeyOrderIrrelevant ==
    CoordDone
    /\ Cardinality(Tier1Keys(heap[metadata], <<"l","a","t","i","t","u","d","e">>)) <= 1
    /\ Cardinality(Tier1Keys(heap[metadata], <<"l","o","n","g","i","t","u",
                                               "d","e">>)) <= 1
    => \A md \in Orderings(heap[metadata]) : extract_coordinates(md) = coords


\* C26: a component (latitude or longitude) that tier 1 of
\* _extract_coordinates resolved is never replaced by tier 2: when only one
\* component is unresolved after tier 1, the returned pair keeps the tier-1
\* value of the other component and takes only the missing component from a
\* 'coordinates' entry.
C26_TierOneComponentKept ==
    CoordDone /\ coords.kind = "pair" /\ ~Tier1(heap[metadata]).raised
    => /\ Tier1(heap[metadata]).lat # NoneVal
             => coords.lat = Tier1(heap[metadata]).lat
       /\ Tier1(heap[metadata]).lon # NoneVal
             => coords.lon = Tier1(heap[metadata]).lon

(***************************************************************************)
(* _convert_gps_coord, _decimal_to_dms and _process_exif_value             *)
(***************************************************************************)
ConvertDone == pc = "done" /\ op = "_convert_gps_coord"

\* C13: _convert_gps_coord returns d + m/60 + s/3600 for a triple, d + m/60
\* for a pair, the value itself for a singleton and 0.0 for empty input, and
\* returns 0.0 when an element that it reads cannot be converted to a number.
C13_DegreesMinutesSeconds ==
    ConvertDone =>
        LET v == args.values
            n == IF Len(v) >= 3 THEN 3 ELSE Len(v)
        IN  /\ ~raised
            /\ n = 0 => out = Num(0)
            /\ (\E i \in 1..n : v[i] = FloatError) => out = Num(0)
            /\ n = 1 /\ IsFinite(v[1]) => out = v[1]
            /\ n = 2 /\ IsFinite(v[1]) /\ IsFinite(v[2])
               => out.kind = "num" /\ 60 * (out.v - v[1].v) = v[2].v
            /\ n = 3 /\ (\A i \in 1..3 : IsFinite(v[i]))
               => /\ out.kind = "num"
                  /\ 60 * (out.v - v[1].v) = v[2].v + (v[3].v \div 60)

\* 40 degrees, 26.5 minutes and 46.8 seconds were converted
C13_Witness ==
    /\ ConvertDone
    /\ args.values = <<Num(40 * Unit), Num(26 * Unit + Unit \div 2),
                       Num(46 * Unit + 4 * (Unit \div 5))>>
    /\ out = Num(40 * Unit + 1590000 + 46800)

RoundTripDone == pc = "done" /\ op = "_decimal_to_dms"

\* where the character c first occurs in the text t
FirstAt(t, c) == CHOOSE i \in 1..Len(t) : t[i] = c /\ \A j \in 1..(i - 1) : t[j] # c

\* what a printed position reads as: its degrees, minutes and seconds, the
\* value they denote in units, and its label
PrintedDegrees(t) == NatOf(SubSeq(t, 1, FirstAt(t, "deg") - 1))
PrintedMinutes(t) == NatOf(SubSeq(t, FirstAt(t, "deg") + 2, FirstAt(t, "'") - 1))
PrintedSeconds(t) == ParseFloat(SubSeq(t, FirstAt(t, "'") + 2, FirstAt(t, "\"") - 1))
PrintedValue(t) ==
    PrintedDegrees(t) * Unit + PrintedMinutes(t) * (Unit \div 60)
    + (PrintedSeconds(t).v \div 3600)
PrintedLabel(t) == SubSeq(t, FirstAt(t, "\"") + 2, Len(t))

\* C14: for whole degrees d in 0..179, whole minutes m in 0..59 and seconds s
\* in [0, 59.999], _decimal_to_dms(_convert_gps_coord((d, m, s)), is_lat)
\* carries the label N for a latitude and E for a longitude, and the degrees,
\* minutes and seconds it prints denote d + m/60 + s/3600 to within half a
\* hundredth of a second (5 units), whichever way the float operations round.
C14_DmsRoundTrip ==
    RoundTripDone =>
        /\ PrintedLabel(out) = (IF args.is_lat THEN <<"N">> ELSE <<"E">>)
        /\ PrintedSeconds(out).kind = "num"
        /\ LET exact == args.d * Unit + args.m * (Unit \div 60) + args.s
           IN  Abs(PrintedValue(out) - exact) <= 5

\* 59.999 seconds were printed as 60.00
C14_Witness ==
    /\ RoundTripDone
    /\ args.s = 59999
    /\ args.m = 26
    /\ PrintedMinutes(out) = 26
    /\ PrintedSeconds(out) = Num(60 * Unit)

ProcessDone == pc = "done" /\ op = "_process_exif_value"

\* the byte string holds nothing but null bytes and spaces
Blank(bs) == \A i \in 1..Len(bs) : bs[i] \in {"NUL", " "}

\* C15: for every byte string B of null bytes and spaces, the empty one
\* included, _process_exif_value(B) is 'binary_data_<len(B)>_bytes' with the
\* length B had before it was decoded and trimmed.
C15_BlankBytesPlaceholder ==
    ProcessDone /\ args.value.t = "bytes" /\ Blank(args.value.s)
    => out = StrVal(<<"b","i","n","a","r","y","_","d","a","t","a","_">> \o NatChars(Len(args.value.s)) \o <<
                                                                                                            "_",
                                                                                                            "b",
                                                                                                            "y",
                                                                                                            "t",
                                                                                                            "e",
                                                                                                            "s">>)

\* a space, a null byte and a space gave binary_data_3_bytes
C15_Witness ==
    /\ ProcessDone
    /\ args.value = BytesVal(<<" ", "NUL", " ">>)
    /\ out = StrVal(<<"b","i","n","a","r","y","_","d","a","t","a","_","3","_",
                      "b","y","t","e","s">>)

(***************************************************************************)
(* _detailed_gps: the hemisphere signs                                     *)
(***************************************************************************)
GpsDone == pc = "done" /\ op = "_detailed_gps"

\* the file has the reference tag name and its text, whatever the case, is ref
RefIs(name, ref) ==
    /\ HasTag(env.tags, name)
    /\ Upper(TagNamed(env.tags, name).s) = ref

\* the decimal printed for a component whose tag holds magnitudes: the
\* conversion of the tag with eight decimals, behind a minus sign when negated
PrintedDecimal(name, negated, up) ==
    StrVal((IF negated THEN <<"-">> ELSE <<>>)
           \o FormatFixed(convert_gps_coord(TagNamed(env.tags, name).items), 8, up))

\* C16: when the latitude and longitude tags are present, GPS_Latitude_Decimal
\* is the negated conversion exactly when the latitude reference is S, and
\* GPS_Longitude_Decimal the negated conversion exactly when the longitude
\* reference is W; with N, E or no reference tag the conversion is not negated.
C16_HemisphereSigns ==
    GpsDone =>
        /\ HasKey(heap[ret], Key(<<"G","P","S","_","L","a","t","i","t","u",
                                   "d","e","_","D","e","c","i","m","a","l">>))
        /\ HasKey(heap[ret], Key(<<"G","P","S","_","L","o","n","g","i","t",
                                   "u","d","e","_","D","e","c","i","m","a","l">>))
        /\ Get(heap[ret], Key(<<"G","P","S","_","L","a","t","i","t","u","d",
                                "e","_","D","e","c","i","m","a","l">>))
              = PrintedDecimal(<<"G","P","S"," ","G","P","S","L","a","t","i",
                                 "t","u","d","e">>,
                               RefIs(<<"G","P","S"," ","G","P","S","L","a",
                                       "t","i","t","u","d","e","R","e","f">>, <<
                                                                                "S">>), env.fp.lat.fix)
        /\ Get(heap[ret], Key(<<"G","P","S","_","L","o","n","g","i","t","u",
                                "d","e","_","D","e","c","i","m","a","l">>))
              = PrintedDecimal(<<"G","P","S"," ","G","P","S","L","o","n","g",
                                 "i","t","u","d","e">>,
                               RefIs(<<"G","P","S"," ","G","P","S","L","o",
                                       "n","g","i","t","u","d","e","R","e","f">>, <<
                                                                                    "W">>), env.fp.lon.fix)

\* 40 26' 46.8" N, 79 58' 56.3" W gave 40.44633333 and -79.98230556
C16_Witness ==
    /\ GpsDone
    /\ RefIs(<<"G","P","S"," ","G","P","S","L","a","t","i","t","u","d","e",
               "R","e","f">>, <<"N">>)
    /\ RefIs(<<"G","P","S"," ","G","P","S","L","o","n","g","i","t","u","d",
               "e","R","e","f">>, <<"W">>)
    /\ Get(heap[ret], Key(<<"G","P","S","_","L","a","t","i","t","u","d","e",
                            "_","D","e","c","i","m","a","l">>)) = StrVal(<<
                                                                           "4",
                                                                           "0",
                                                                           ".",
                                                                           "4",
                                                                           "4",
                                                                           "6",
                                                                           "3",
                                                                           "3",
                                                                           "3",
                                                                           "3",
                                                                           "3">>)
    /\ Get(heap[ret], Key(<<"G","P","S","_","L","o","n","g","i","t","u","d",
                            "e","_","D","e","c","i","m","a","l">>)) = StrVal(<<
                                                                               "-",
                                                                               "7",
                                                                               "9",
                                                                               ".",
                                                                               "9",
                                                                               "8",
                                                                               "2",
                                                                               "3",
                                                                               "0",
                                                                               "5",
                                                                               "5",
                                                                               "6">>)


(***************************************************************************)
(* enhance_metadata of a record without a coordinate                       *)
(***************************************************************************)
\* the fields that exist only for a coordinate
CoordinateFields ==
    {Key(<<"O","S","I","N","T","_","C","o","o","r","d","i","n","a","t","e","s">>), Key(<<
                                                                                         "O",
                                                                                         "S",
                                                                                         "I",
                                                                                         "N",
                                                                                         "T",
                                                                                         "_",
                                                                                         "G",
                                                                                         "o",
                                                                                         "o",
                                                                                         "g",
                                                                                         "l",
                                                                                         "e",
                                                                                         "_",
                                                                                         "M",
                                                                                         "a",
                                                                                         "p",
                                                                                         "s">>),
     Key(<<"O","S","I","N","T","_","O","p","e","n","S","t","r","e","e","t",
           "M","a","p">>), Key(<<"O","S","I","N","T","_","B","i","n","g","_",
                                 "M","a","p","s">>),
     Key(<<"O","S","I","N","T","_","Y","a","n","d","e","x","_","M","a","p","s">>), Key(<<
                                                                                         "O",
                                                                                         "S",
                                                                                         "I",
                                                                                         "N",
                                                                                         "T",
                                                                                         "_",
                                                                                         "W",
                                                                                         "h",
                                                                                         "a",
                                                                                         "t",
                                                                                         "3",
                                                                                         "W",
                                                                                         "o",
                                                                                         "r",
                                                                                         "d",
                                                                                         "s">>),
     Key(<<"O","S","I","N","T","_","L","o","c","a","t","i","o","n","_","T",
           "y","p","e">>), Key(<<"O","S","I","N","T","_","M","a","p","_","F",
                                 "i","l","e">>)}

\* the record has the str key name with a text for value
HasText(md, name) == HasKey(md, Key(name)) /\ Get(md, Key(name)).t = "str"

CameraDone == pc = "done" /\ op = "_camera_osint_analysis"

\* the places in md of the keys whose lower-cased name contains marker
Matching(md, marker) ==
    {i \in 1..Len(md) : Contains(marker, Lower(md[i].k.s))}

\* the text of the first value of md under a key that names marker
FirstMatch(md, marker) ==
    StrVal(Str(md[CHOOSE i \in Matching(md, marker) :
                      \A j \in Matching(md, marker) : i <= j].v))

\* result holds under field the first value of md that names marker, and
\* lacks field when no key names marker
ReportsFirst(md, result, marker, field) ==
    IF Matching(md, marker) = {} THEN ~HasKey(result, Key(field))
    ELSE /\ HasKey(result, Key(field))
         /\ Get(result, Key(field)) = FirstMatch(md, marker)

\* C18: _camera_osint_analysis reports as make, model and serial the value of
\* the first key, in record order, whose lower-cased name contains 'make',
\* 'model' and 'serial', each category decided on its own: also when the key
\* names another category too, and when its value is an empty string.
C18_FirstMatchPerCategory ==
    CameraDone
    => /\ ReportsFirst(args.metadata, out, <<"m","a","k","e">>, <<"O","S","I",
                                                                  "N","T","_",
                                                                  "C","a","m",
                                                                  "e","r","a",
                                                                  "_","M","a",
                                                                  "k","e">>)
       /\ ReportsFirst(args.metadata, out, <<"m","o","d","e","l">>, <<"O","S",
                                                                      "I","N",
                                                                      "T","_",
                                                                      "C","a",
                                                                      "m","e",
                                                                      "r","a",
                                                                      "_","M",
                                                                      "o","d",
                                                                      "e","l">>)
       /\ ReportsFirst(args.metadata, out, <<"s","e","r","i","a","l">>, <<"O",
                                                                          "S",
                                                                          "I",
                                                                          "N",
                                                                          "T",
                                                                          "_",
                                                                          "C",
                                                                          "a",
                                                                          "m",
                                                                          "e",
                                                                          "r",
                                                                          "a",
                                                                          "_",
                                                                          "S",
                                                                          "e",
                                                                          "r",
                                                                          "i",
                                                                          "a",
                                                                          "l">>)


(***************************************************************************)
(* _time_analysis: the count, the echoed timestamps and the flag           *)
(***************************************************************************)
TimeDone == pc = "done" /\ op = "_time_analysis"

\* the key of e contains 'date' or 'time' and str of its value '201' or '202'
IsDated(e) ==
    /\ Contains(<<"d","a","t","e">>, Lower(e.k.s)) \/ Contains(<<"t","i","m",
                                                                 "e">>, Lower(e.k.s))
    /\ Contains(<<"2","0","1">>, Str(e.v)) \/ Contains(<<"2","0","2">>, Str(e.v))

\* the dated entries of md, in record order
Dated(md) == SelectSeq(md, IsDated)

TimeField(i) == Key(<<"O","S","I","N","T","_","T","i","m","e","_">> \o NatChars(i))

\* result echoes the first five dated entries of md, in record order, and no
\* other, and holds the flag exactly when there is more than one
EchoesFirstFive(md, result) ==
    /\ \A i \in 1..(Len(md) + 1) :
          IF i <= Len(Dated(md)) /\ i <= 5
          THEN /\ HasKey(result, TimeField(i))
               /\ Get(result, TimeField(i))
                     = StrVal(Dated(md)[i].k.s \o <<":"," ">> \o Str(Dated(md)[i].v))
          ELSE ~HasKey(result, TimeField(i))
    /\ HasKey(result, Key(<<"O","S","I","N","T","_","T","i","m","e","_","A",
                            "n","a","l","y","s","i","s">>)) <=> Len(Dated(md)) > 1

\* result holds under OSINT_Timestamps_Found the number of dated entries of md
ReportsCount(md, result) ==
    /\ HasKey(result, Key(<<"O","S","I","N","T","_","T","i","m","e","s","t",
                            "a","m","p","s","_","F","o","u","n","d">>))
    /\ Get(result, Key(<<"O","S","I","N","T","_","T","i","m","e","s","t","a",
                         "m","p","s","_","F","o","u","n","d">>))
          = NumVal(NatChars(Len(Dated(md))))

\* C19 as stated: _time_analysis reports in OSINT_Timestamps_Found the number
\* of keys containing 'date' or 'time' whose stringified value contains '201'
\* or '202', whatever that number is, emits exactly min(count, 5) fields
\* OSINT_Time_1.. in record order, and OSINT_Time_Analysis exactly when the
\* count is greater than one.
C19_CountAlwaysReported ==
    TimeDone
    => /\ ReportsCount(args.metadata, out)
       /\ EchoesFirstFive(args.metadata, out)

\* C19: _time_analysis reports in OSINT_Timestamps_Found the number of keys
\* containing 'date' or 'time' (case-insensitive) whose stringified value
\* contains '201' or '202' when there is at least one, and has no such field
\* when there is none; it emits exactly min(count, 5) fields OSINT_Time_1..
\* in record order, and OSINT_Time_Analysis exactly when the count is greater
\* than one.
C19_CountReportedWhenFound ==
    TimeDone
    => /\ IF Dated(args.metadata) = <<>>
          THEN ~HasKey(out, Key(<<"O","S","I","N","T","_","T","i","m","e","s",
                                  "t","a","m","p","s","_","F","o","u","n","d">>))
          ELSE ReportsCount(args.metadata, out)
       /\ EchoesFirstFive(args.metadata, out)

\* a record with more than five dated entries was analysed: the count is
\* theirs, five are echoed and the sixth is not
C19_Witness ==
    /\ TimeDone
    /\ Len(Dated(args.metadata)) > 5
    /\ ReportsCount(args.metadata, out)
    /\ HasKey(out, TimeField(5))
    /\ ~HasKey(out, TimeField(6))
    /\ HasKey(out, Key(<<"O","S","I","N","T","_","T","i","m","e","_","A","n",
                         "a","l","y","s","i","s">>))


(***************************************************************************)
(* show_metadata: each key in one category, the first in priority order    *)
(***************************************************************************)
ShowDone == pc = "done" /\ op = "show_metadata"

\* the categories in priority order, each with its markers; the last one
\* takes the keys that hold no marker
Priority ==
    << [category |-> "File Information",
        markers |-> {<<"f","i","l","e","_">>, <<"n","a","m","e">>, <<"s","i",
                                                                     "z","e">>, <<
                                                                                  "p",
                                                                                  "a",
                                                                                  "t",
                                                                                  "h">>, <<
                                                                                           "e",
                                                                                           "x",
                                                                                           "t",
                                                                                           "e",
                                                                                           "n",
                                                                                           "s",
                                                                                           "i",
                                                                                           "o",
                                                                                           "n">>}],
       [category |-> "Camera & Lens",
        markers |-> {<<"m","a","k","e">>, <<"m","o","d","e","l">>, <<"l","e",
                                                                     "n","s">>, <<
                                                                                  "s",
                                                                                  "e",
                                                                                  "r",
                                                                                  "i",
                                                                                  "a",
                                                                                  "l">>, <<
                                                                                           "c",
                                                                                           "a",
                                                                                           "m",
                                                                                           "e",
                                                                                           "r",
                                                                                           "a">>,
                     <<"m","a","n","u","f","a","c","t","u","r","e","r">>}],
       [category |-> "Capture Settings",
        markers |-> {<<"e","x","p","o","s","u","r","e">>, <<"a","p","e","r",
                                                            "t","u","r","e">>, <<
                                                                                 "i",
                                                                                 "s",
                                                                                 "o">>, <<
                                                                                          "f",
                                                                                          "o",
                                                                                          "c",
                                                                                          "a",
                                                                                          "l">>, <<
                                                                                                   "s",
                                                                                                   "h",
                                                                                                   "u",
                                                                                                   "t",
                                                                                                   "t",
                                                                                                   "e",
                                                                                                   "r">>,
                     <<"w","h","i","t","e">>, <<"f","l","a","s","h">>, <<"m",
                                                                         "e",
                                                                         "t",
                                                                         "e",
                                                                         "r",
                                                                         "i",
                                                                         "n",
                                                                         "g">>}],
       [category |-> "GPS & Location", markers |-> {<<"g","p","s">>}],
       [category |-> "Date & Time", markers |-> {<<"d","a","t","e">>, <<"t",
                                                                        "i",
                                                                        "m",
                                                                        "e">>}],
       [category |-> "Image Properties",
        markers |-> {<<"w","i","d","t","h">>, <<"h","e","i","g","h","t">>, <<
                                                                             "m",
                                                                             "o",
                                                                             "d",
                                                                             "e">>, <<
                                                                                      "f",
                                                                                      "o",
                                                                                      "r",
                                                                                      "m",
                                                                                      "a",
                                                                                      "t">>, <<
                                                                                               "s",
                                                                                               "i",
                                                                                               "z",
                                                                                               "e">>,
                     <<"t","e","c","h","n","i","c","a","l">>, <<"i","m","a",
                                                                "g","e","_">>}],
       [category |-> "Color & Profiles",
        markers |-> {<<"c","o","l","o","r">>, <<"i","c","c">>, <<"p","r","o",
                                                                 "f","i","l",
                                                                 "e">>}],
       [category |-> "RAW Information", markers |-> {<<"r","a","w">>}],
       [category |-> "OSINT Intelligence", markers |-> {<<"o","s","i","n","t">>}],
       [category |-> "EXIF Data", markers |-> {<<"e","x","i","f">>}],
       [category |-> "Other Metadata", markers |-> {<<>>}] >>

\* the places in Priority of the categories one of whose markers is in key
Candidates(key) ==
    LET key_lower == Lower(key.s)
    IN  {i \in 1..Len(Priority) :
            \E x \in Priority[i].markers : Contains(x, key_lower)}

\* the first category in priority order one of whose markers is in key
FirstCategory(key) ==
    LET found == Candidates(key)
    IN  Priority[CHOOSE i \in found : \A j \in found : i <= j].category

\* the categories that hold key
Holding(categories, key) ==
    {n \in DOMAIN categories : HasKey(categories[n], key)}

RECURSIVE SizesFrom(_, _)
SizesFrom(categories, names) ==
    IF names = <<>> THEN 0
    ELSE Len(categories[Head(names)]) + SizesFrom(categories, Tail(names))

AllStrKeys(md) == \A i \in 1..Len(md) : md[i].k.str

\* C20: the category classifier places every key of a record in exactly one
\* of the eleven categories, namely the first one in the fixed priority order
\* (file-info, camera/lens, capture-setting, 'gps', date/time, image-property,
\* color/profile, 'raw', 'osint', 'exif', other) whose marker occurs in the
\* lower-cased key, with the value of the record; the category sizes sum to
\* the number of keys.
C20_FirstCategoryInPriorityOrder ==
    ShowDone /\ args.metadata # <<>> /\ AllStrKeys(args.metadata)
    => /\ ~raised
       /\ DOMAIN out.categories = {Priority[i].category : i \in 1..Len(Priority)}
       /\ \A i \in 1..Len(args.metadata) :
             \E first \in {FirstCategory(args.metadata[i].k)} :
                /\ Holding(out.categories, args.metadata[i].k) = {first}
                /\ Get(out.categories[first], args.metadata[i].k)
                      = args.metadata[i].v
       /\ SizesFrom(out.categories, CategoryNames) = Len(args.metadata)

\* a record with a key for every category was shown, among them keys that
\* hold the markers of two: 'GPS_Date' is under GPS, 'OSINT_Time_1' under
\* date and time, 'RAW_Format' under image properties, 'ImageSize' under file
C20_Witness ==
    /\ ShowDone
    /\ ~raised
    /\ Len(args.metadata) = 12
    /\ \A n \in DOMAIN out.categories : out.categories[n] # <<>>
    /\ HasKey(out.categories["GPS & Location"], Key(<<"G","P","S","_","D","a",
                                                      "t","e">>))
    /\ HasKey(out.categories["Date & Time"], Key(<<"O","S","I","N","T","_",
                                                   "T","i","m","e","_","1">>))
    /\ HasKey(out.categories["Image Properties"], Key(<<"R","A","W","_","F",
                                                        "o","r","m","a","t">>))
    /\ HasKey(out.categories["File Information"], Key(<<"I","m","a","g","e",
                                                        "S","i","z","e">>))
    /\ Len(out.tree) = 11


(***************************************************************************)
(* enhance_metadata: the names of the fields it adds                       *)
(***************************************************************************)
\* the keys of result that base does not have
AddedKeys(result, base) == KeysOf(result) \ KeysOf(base)

\* C23: every key that is present in enhance_metadata(base, path) but absent
\* from base is a str that starts with the reserved prefix 'OSINT_', for
\* every combination of succeeding and failing analyses.
C23_AddedKeysReserved ==
    EnhanceDone
    => \A k \in AddedKeys(heap[ret], heap[metadata]) :
          k.str /\ StartsWith(k.s, <<"O","S","I","N","T","_">>)

\* a record with a coordinate and a URL was enhanced for a file that does not
\* open: the coordinate and network fields and the forensic error were added
C23_Witness ==
    /\ EnhanceDone
    /\ ForensicFailure
    /\ ~NetworkFailure
    /\ {Key(<<"O","S","I","N","T","_","C","o","o","r","d","i","n","a","t","e",
              "s">>), Key(<<"O","S","I","N","T","_","U","R","L","_","I","n",
                            "_","X","M","P","_","R","a","w">>),
        Key(<<"O","S","I","N","T","_","E","m","a","i","l","_","L","i","k","e",
              "_","I","n","_","X","M","P","_","R","a","w">>), Key(<<"O","S",
                                                                    "I","N",
                                                                    "T","_",
                                                                    "F","o",
                                                                    "r","e",
                                                                    "n","s",
                                                                    "i","c",
                                                                    "_","E",
                                                                    "r","r",
                                                                    "o","r">>)}
          \subseteq AddedKeys(heap[ret], heap[metadata])

(***************************************************************************)
(* _gps_osint_analysis: the location type and the map links                *)
(***************************************************************************)
LocationLabels ==
    {StrVal(<<"A","i","r","p","o","r","t","/","T","r","a","n","s","p","o","r",
              "t">>), StrVal(<<"T","o","u","r","i","s","t"," ","l","o","c",
                               "a","t","i","o","n">>),
     StrVal(<<"H","i","s","t","o","r","i","c"," ","s","i","t","e">>), StrVal(<<
                                                                               "L",
                                                                               "e",
                                                                               "i",
                                                                               "s",
                                                                               "u",
                                                                               "r",
                                                                               "e",
                                                                               " ",
                                                                               "a",
                                                                               "r",
                                                                               "e",
                                                                               "a">>), StrVal(<<
                                                                                                "W",
                                                                                                "a",
                                                                                                "t",
                                                                                                "e",
                                                                                                "r",
                                                                                                " ",
                                                                                                "a",
                                                                                                "r",
                                                                                                "e",
                                                                                                "a">>),
     StrVal(<<"U","r","b","a","n","/","R","e","s","i","d","e","n","t","i","a",
              "l">>), StrVal(<<"U","n","k","n","o","w","n">>)}

\* the record had a coordinate and no field named name before it was enhanced
ResolvedWithout(name) ==
    /\ EnhanceDone
    /\ extract_coordinates(heap[metadata]).kind = "pair"
    /\ ~HasKey(heap[metadata], Key(name))

\* C24: _analyze_location_type returns one of the seven labels
\* Airport/Transport, Tourist location, Historic site, Leisure area, Water
\* area, Urban/Residential or Unknown for every outcome of the geocoder (an
\* address, no result, or an exception), so OSINT_Location_Type is never
\* stored as a null value.
C24_LocationTypeIsLabel ==
    ResolvedWithout(<<"O","S","I","N","T","_","L","o","c","a","t","i","o","n",
                      "_","T","y","p","e">>)
       /\ HasKey(heap[ret], Key(<<"O","S","I","N","T","_","L","o","c","a","t",
                                  "i","o","n","_","T","y","p","e">>))
    => /\ Get(heap[ret], Key(<<"O","S","I","N","T","_","L","o","c","a","t",
                               "i","o","n","_","T","y","p","e">>))
             = analyze_location_type(env.reverse2)
       /\ Get(heap[ret], Key(<<"O","S","I","N","T","_","L","o","c","a","t",
                               "i","o","n","_","T","y","p","e">>)) \in LocationLabels

MapLinkFields ==
    {Key(<<"O","S","I","N","T","_","G","o","o","g","l","e","_","M","a","p","s">>), Key(<<
                                                                                         "O",
                                                                                         "S",
                                                                                         "I",
                                                                                         "N",
                                                                                         "T",
                                                                                         "_",
                                                                                         "O",
                                                                                         "p",
                                                                                         "e",
                                                                                         "n",
                                                                                         "S",
                                                                                         "t",
                                                                                         "r",
                                                                                         "e",
                                                                                         "e",
                                                                                         "t",
                                                                                         "M",
                                                                                         "a",
                                                                                         "p">>),
     Key(<<"O","S","I","N","T","_","B","i","n","g","_","M","a","p","s">>), Key(<<
                                                                                 "O",
                                                                                 "S",
                                                                                 "I",
                                                                                 "N",
                                                                                 "T",
                                                                                 "_",
                                                                                 "Y",
                                                                                 "a",
                                                                                 "n",
                                                                                 "d",
                                                                                 "e",
                                                                                 "x",
                                                                                 "_",
                                                                                 "M",
                                                                                 "a",
                                                                                 "p",
                                                                                 "s">>)}

\* C25: whenever a coordinate resolves, the enriched record contains
\* OSINT_Coordinates and the four map-provider URL fields, whatever the
\* network geocoding collaborator does: returns an address, returns nothing,
\* raises, or times out.
C25_MapLinksWhateverGeocoder ==
    EnhanceDone /\ extract_coordinates(heap[metadata]).kind = "pair"
    => /\ HasKey(heap[ret], Key(<<"O","S","I","N","T","_","C","o","o","r","d",
                                  "i","n","a","t","e","s">>))
       /\ \A k \in MapLinkFields : HasKey(heap[ret], k)


(***************************************************************************)
(* _xmp_iptc_data: the slice kept as XMP_Raw                               *)
(***************************************************************************)
XmpDone == pc = "done" /\ op = "_xmp_iptc_data"

\* the offset of the opening marker of raw, or -1
OpeningAt(raw) ==
    IF Find(raw, <<"<","x",":","x","m","p","m","e","t","a">>, 0) # -1 THEN Find(raw, <<
                                                                                       "<",
                                                                                       "x",
                                                                                       ":",
                                                                                       "x",
                                                                                       "m",
                                                                                       "p",
                                                                                       "m",
                                                                                       "e",
                                                                                       "t",
                                                                                       "a">>, 0)
    ELSE Find(raw, <<"<","x","p","a","c","k","e","t">>, 0)

ClosingMarkers == {<<"<","/","x",":","x","m","p","m","e","t","a",">">>, <<"<",
                                                                          "/",
                                                                          "x",
                                                                          "p",
                                                                          "a",
                                                                          "c",
                                                                          "k",
                                                                          "e",
                                                                          "t",
                                                                          ">">>}

\* the closing markers found in raw from the offset start on
ClosingFound(raw, start) == {m \in ClosingMarkers : Find(raw, m, start) # -1}

\* C27: in the XMP scan, when an opening marker and a closing marker after it
\* are found (either closing form, '</x:xmpmeta>' or '</xpacket>'), XMP_Raw is
\* the file slice that starts at the opening marker and ends at the last byte
\* of that closing marker; when no closing marker is found, the slice is at
\* most 20000 bytes long starting at the opening marker.
C27_SliceEndsWithClosingMarker ==
    XmpDone /\ OpeningAt(args.raw) # -1
    => /\ HasKey(out, Key(<<"X","M","P","_","R","a","w">>))
       /\ \A m \in ClosingMarkers :
             ClosingFound(args.raw, OpeningAt(args.raw)) = {m}
             => Get(out, Key(<<"X","M","P","_","R","a","w">>))
                   = StrVal(Decode(Slice(args.raw, OpeningAt(args.raw),
                               Find(args.raw, m, OpeningAt(args.raw)) + Len(m))))
       /\ ClosingFound(args.raw, OpeningAt(args.raw)) = {}
             => /\ Len(Get(out, Key(<<"X","M","P","_","R","a","w">>)).s) <= XmpCap
                /\ Get(out, Key(<<"X","M","P","_","R","a","w">>))
                      = StrVal(Decode(Slice(args.raw, OpeningAt(args.raw),
                                            OpeningAt(args.raw) + XmpCap)))


(***************************************************************************)
(* find_images: the extensions of the paths it yields                      *)
(***************************************************************************)
FindDone == pc = "done" /\ op = "find_images"

\* every path of the sequence imgs has an extension of the allow-list
AllAllowed(imgs) == \A i \in 1..Len(imgs) : Lower(Splitext(imgs[i])) \in exts

\* C21 as stated: every path yielded by find_images has an extension in the
\* fixed image/RAW allow-list, whether the root is a single file or a
\* directory and whether or not the walk is recursive.
C21_EveryYieldedPathAllowed ==
    FindDone => AllAllowed(out)

\* C21: every path yielded by find_images for a root that is not a regular
\* file has an extension in the fixed image/RAW allow-list, whether or not
\* the walk is recursive (and without recursion is a regular file of the
\* root itself); a root that is a regular file is yielded as it is, whatever
\* its extension, and nothing else is.
C21_DirectoryPathsAllowed ==
    FindDone
    => IF IsFile(disk, args.root) THEN out = <<args.root>>
       ELSE /\ AllAllowed(out)
            /\ \A i \in 1..Len(out) : IsFile(disk, out[i])
            /\ ~args.recursive
                  => \A i \in 1..Len(out) : Dirname(out[i]) = args.root

\* the directory d, holding a text file, was walked recursively: the image
\* of upper-case extension and the RAW file of the sub-directory were
\* yielded, the text file was not
C21_Witness ==
    /\ FindDone
    /\ args.root = <<"d">> /\ args.recursive
    /\ IsFile(disk, <<"d","/","b",".","t","x","t">>)
    /\ \E i, j \in 1..Len(out) : out[i] = <<"d","/","a",".","P","N","G">> /\ out[j] = <<
                                                                                        "d",
                                                                                        "/",
                                                                                        "s",
                                                                                        "/",
                                                                                        "n",
                                                                                        ".",
                                                                                        "n",
                                                                                        "e",
                                                                                        "f">>
    /\ \A i \in 1..Len(out) : out[i] # <<"d","/","b",".","t","x","t">>

(***************************************************************************)
(* main: one JSON document for each file processed                         *)
(***************************************************************************)
MainDone == pc = "done" /\ op = "main"

\* the paths of the JSON documents on the disk d
Documents(d) == {p \in DOMAIN d.files : d.files[p].json}

\* C28: in a CLI batch, distinct source image files are persisted to distinct
\* JSON output paths: after main has processed a set of files, no file's
\* <basename>_metadata.json has been overwritten by another file's output,
\* with or without --out and with or without --recursive, so the number of
\* JSON documents equals the reported processed count.
C28_DistinctOutputPaths ==
    MainDone
    => /\ \A i, j \in 1..Len(out.saved) :
             out.saved[i][1] # out.saved[j][1]
             => out.saved[i][2] # out.saved[j][2]
       /\ \A i \in 1..Len(out.saved) :
             /\ IsFile(disk, out.saved[i][2])
             /\ disk.files[out.saved[i][2]].payload.source_file
                   = Abspath(out.saved[i][1])
       /\ Cardinality(Documents(disk)) = out.count


(***************************************************************************)
(* ExtractionWorker.run: one completion signal for each run                *)
(***************************************************************************)
\* the threads of the window whose worker has run
Ran == {t \in 1..Len(window.threads) : window.threads[t].worker = "done"}

\* C22: each run of the GUI extraction worker hands its outcome back through
\* exactly one completion signal: either finished(record) or error(message),
\* never both and never neither; a worker that has not run has emitted
\* nothing.
C22_ExactlyOneCompletionSignal ==
    \A t \in 1..Len(window.threads) :
       IF t \in Ran
       THEN /\ Len(window.threads[t].emitted) = 1
            /\ window.threads[t].emitted[1].signal \in {"finished", "error"}
            /\ window.threads[t].emitted[1].signal = "error"
                  => window.threads[t].emitted[1].arg = <<"b","o","o","m">>
            /\ window.threads[t].emitted[1].signal = "finished"
                  => Returns(window.threads[t].emitted[1].arg) \in Outcomes
       ELSE window.threads[t].emitted = <<>>

\* two workers have run, one whose extraction raised and one whose
\* extraction returned: the first emitted error alone, the second finished
\* alone
C22_Witness ==
    /\ Ran = {1, 2}
    /\ window.threads[1].emitted = << Emitted("error", <<"b","o","o","m">>) >>
    /\ Len(window.threads[2].emitted) = 1
    /\ window.threads[2].emitted[1].signal = "finished"

(***************************************************************************)
(* MainWindow: the threads are told to quit, the actions re-enabled        *)
(***************************************************************************)
\* nothing is left to do: every worker has run and every posted slot call
\* has been made
Quiescent == window.queue = <<>> /\ Ran = 1..Len(window.threads)

====
